---------------------------- MODULE Spec2Model ----------------------------
(***************************************************************************)
(* A model of the Pine Script compiler front end:                          *)
(*   Lexer (src/src/lexer/lexer.ts), Parser (src/src/parser/parser.ts),    *)
(*   SemanticAnalyzer (src/unnamed/part_003) and the orchestration in      *)
(*   PineScriptCompiler.compileSource (src/src/compiler.ts).               *)
(*                                                                         *)
(* Source text is a sequence of one-character strings.  Token values are   *)
(* such sequences too; Str turns one into a TLA+ string where the code     *)
(* uses the text as a name (keyword lookup, identifier names, scope keys). *)
(***************************************************************************)
EXTENDS Integers, Sequences, FiniteSets, TLC

VARIABLES
    source,        \* Lexer.source
    position,      \* Lexer.position (0-based, as in the code)
    line,          \* Lexer.line
    column,        \* Lexer.column
    tokens,        \* Lexer.tokens, later Parser.tokens
    lexErrors,     \* Lexer.errors
    indentStack,   \* Lexer.indentStack
    atLineStart,   \* Lexer.atLineStart
    current,       \* Parser.current
    parseErrors,   \* Parser.errors
    statements,    \* parseProgram's local list of statements
    ast,           \* ParseResult.ast
    semErrors,     \* SemanticAnalyzer.errors
    symbolTable,   \* SemanticAnalyzer.symbolTable.symbols
    scopeStack,    \* SemanticAnalyzer.scopeStack
    semFields,     \* SemanticAnalyzer's other fields: the scopes of the symbol
                   \* table, currentScope, scopeCounter, inLoop,
                   \* hasStrategyOrIndicator, plotCount
    allErrors,     \* compileSource's allErrors
    result,        \* the CompileResult returned
    invoked,       \* history: the stages compileSource has invoked, in order
    scanSteps,     \* history: the number of scanToken calls of this tokenize run
    pc             \* where the run stands

vars == <<source, position, line, column, tokens, lexErrors, indentStack,
          atLineStart, current, parseErrors, statements, ast, semErrors,
          symbolTable, scopeStack, semFields, allErrors, result, invoked,
          scanSteps, pc>>

lexVars == <<position, line, column, tokens, lexErrors, indentStack, atLineStart>>
parVars == <<current, parseErrors, statements, ast>>
semVars == <<semErrors, symbolTable, scopeStack, semFields>>
compVars == <<allErrors, result, invoked>>

-----------------------------------------------------------------------------
(* Characters and strings *)

NUL == "NUL"       \* the '\0' that advance/peek return at the end of input

Digits == {"0", "1", "2", "3", "4", "5", "6", "7", "8", "9"}

Letters == {"a", "b", "c", "d", "e", "f", "g", "h", "i", "j", "k", "l", "m",
            "n", "o", "p", "q", "r", "s", "t", "u", "v", "w", "x", "y", "z",
            "A", "B", "C", "D", "E", "F", "G", "H", "I", "J", "K", "L", "M",
            "N", "O", "P", "Q", "R", "S", "T", "U", "V", "W", "X", "Y", "Z",
            "_"}

isDigit(char) == char \in Digits

isAlpha(char) == char \in Letters

isAlphaNumeric(char) == isAlpha(char) \/ isDigit(char)

RECURSIVE Str(_)
Str(chars) == IF chars = <<>> THEN "" ELSE Head(chars) \o Str(Tail(chars))

RECURSIVE Spaces(_)
Spaces(n) == IF n <= 0 THEN <<>> ELSE <<" ">> \o Spaces(n - 1)

\* source.charAt(i): the empty string outside the text
charAt(i) == IF i >= 0 /\ i < Len(source) THEN source[i + 1] ELSE ""

\* source.substring(from, to), 0-based, to exclusive
substring(from, to) ==
    LET a == IF from < 0 THEN 0 ELSE IF from > Len(source) THEN Len(source) ELSE from
        b == IF to < 0 THEN 0 ELSE IF to > Len(source) THEN Len(source) ELSE to
    IN  IF a <= b THEN SubSeq(source, a + 1, b) ELSE SubSeq(source, b + 1, a)

-----------------------------------------------------------------------------
(* Error codes (enum ErrorCodes) *)

INVALID_CHARACTER == 1001
UNTERMINATED_STRING == 1002
INVALID_NUMBER_FORMAT == 1003
UNEXPECTED_TOKEN == 2001
INVALID_FUNCTION_DECLARATION == 2004
MISSING_STRATEGY_DECLARATION == 2005
UNDEFINED_VARIABLE == 3001
TYPE_MISMATCH == 3002
PLOT_IN_LOOP == 3004
VARIABLE_REDECLARATION == 3006

-----------------------------------------------------------------------------
(* Lexer.  A lexer state is the record of the Lexer's mutable fields. *)

LexState == [position |-> position, line |-> line, column |-> column,
             tokens |-> tokens, errors |-> lexErrors,
             indentStack |-> indentStack, atLineStart |-> atLineStart]

\* Lexer.reset
Lexer_reset == [position |-> 0, line |-> 1, column |-> 1, tokens |-> <<>>,
                errors |-> <<>>, indentStack |-> <<0>>, atLineStart |-> TRUE]

KEYWORDS(text) ==
    CASE text = "var" -> "VAR"
      [] text = "varip" -> "VARIP"
      [] text = "if" -> "IF"
      [] text = "else" -> "ELSE"
      [] text = "for" -> "FOR"
      [] text = "while" -> "WHILE"
      [] text = "true" -> "TRUE"
      [] text = "false" -> "FALSE"
      [] text = "and" -> "AND"
      [] text = "or" -> "OR"
      [] text = "not" -> "NOT"
      [] text = "plot" -> "PLOT"
      [] text = "strategy" -> "STRATEGY"
      [] text = "indicator" -> "INDICATOR"
      [] text = "study" -> "STUDY"
      [] text = "library" -> "LIBRARY"
      [] text = "import" -> "IMPORT"
      [] text = "export" -> "EXPORT"
      [] text = "method" -> "METHOD"
      [] text = "type" -> "TYPE"
      [] text = "switch" -> "SWITCH"
      [] text = "break" -> "BREAK"
      [] text = "continue" -> "CONTINUE"
      [] text = "return" -> "RETURN"
      [] text = "na" -> "NA"
      [] text = "array" -> "ARRAY"
      [] text = "matrix" -> "MATRIX"
      [] text = "map" -> "MAP"
      [] text = "set" -> "SET"
      [] text = "table" -> "TABLE"
      [] text = "box" -> "BOX"
      [] text = "line" -> "LINE"
      [] text = "label" -> "LABEL"
      [] text = "polyline" -> "POLYLINE"
      [] OTHER -> "IDENTIFIER"

Lexer_isAtEnd(s) == s.position >= Len(source)

Lexer_peek(s) == IF Lexer_isAtEnd(s) THEN NUL ELSE charAt(s.position)

peekNext(s) == IF s.position + 1 >= Len(source) THEN NUL ELSE charAt(s.position + 1)

\* Lexer.advance: the state after it (the character returned is Lexer_peek before)
Lexer_advance(s) ==
    IF Lexer_isAtEnd(s) THEN s
    ELSE [s EXCEPT !.position = @ + 1, !.column = @ + 1]

\* Lexer.match: whether it matches, and the state after it
Lexer_matches(s, expected) == ~Lexer_isAtEnd(s) /\ charAt(s.position) = expected

Lexer_match(s, expected) ==
    IF Lexer_matches(s, expected)
    THEN [s EXCEPT !.position = @ + 1, !.column = @ + 1]
    ELSE s

addToken(s, type, value) ==
    [s EXCEPT !.tokens = Append(@,
        [type |-> type, value |-> value, line |-> s.line,
         column |-> s.column - Len(value),
         position |-> s.position - Len(value)])]

Lexer_addError(s, code, message) ==
    [s EXCEPT !.errors = Append(@,
        [type |-> "lexical", severity |-> "error", message |-> message,
         location |-> [line |-> s.line, column |-> s.column, length |-> 1],
         code |-> ToString(code)])]

Top(stack) == stack[Len(stack)]

Pop(stack) == SubSeq(stack, 1, Len(stack) - 1)

\* the loop "while (indentStack.length > 1 && top > indentLevel) { pop; DEDENT }"
RECURSIVE popDedents(_, _)
popDedents(s, indentLevel) ==
    IF Len(s.indentStack) > 1 /\ Top(s.indentStack) > indentLevel
    THEN popDedents(addToken([s EXCEPT !.indentStack = Pop(@)], "DEDENT", <<>>),
                    indentLevel)
    ELSE s

\* the shared tail of both dedent paths: pop, then report a width no level has
dedentTo(s, indentLevel) ==
    LET popped == popDedents(s, indentLevel)
    IN  IF Top(popped.indentStack) # indentLevel
        THEN Lexer_addError(popped, INVALID_CHARACTER,
                 "Indentation does not match any outer indentation level")
        ELSE popped

\* handleIndentation's counting loop: [s |-> state, indentLevel |-> width]
RECURSIVE countIndent(_, _)
countIndent(s, indentLevel) ==
    IF ~Lexer_isAtEnd(s) /\ Lexer_peek(s) \in {" ", "\t"}
    THEN countIndent(Lexer_advance(s),
                     IF Lexer_peek(s) = " " THEN indentLevel + 1 ELSE indentLevel + 4)
    ELSE [s |-> s, indentLevel |-> indentLevel]

\* never consumes a blank line's whitespace: it measures it and steps back
handleIndentation_peekOnly(s0) ==
    LET counted == countIndent(s0, 0)
    IN  IF Lexer_peek(counted.s) \in {"\n", "\r"} \/ Lexer_isAtEnd(counted.s)
        THEN s0
        ELSE [counted.s EXCEPT !.atLineStart = FALSE]

handleIndentation(s0) ==
    LET counted == countIndent(s0, 0)
        s == counted.s
        indentLevel == counted.indentLevel
        currentIndent == Top(s.indentStack)
    IN  IF Lexer_peek(s) \in {"\n", "\r"} \/ Lexer_isAtEnd(s)
        THEN s
        ELSE LET after ==
                   IF indentLevel > currentIndent
                   THEN addToken([s EXCEPT !.indentStack = Append(@, indentLevel)],
                                 "INDENT", Spaces(indentLevel))
                   ELSE IF indentLevel < currentIndent
                   THEN dedentTo(s, indentLevel)
                   ELSE s
             IN  [after EXCEPT !.atLineStart = FALSE]

\* empties the indentation stack without emitting the DEDENT tokens
handleFinalDedents_silent(s) == [s EXCEPT !.indentStack = <<0>>]

RECURSIVE handleFinalDedents(_)
handleFinalDedents(s) ==
    IF Len(s.indentStack) > 1
    THEN handleFinalDedents(addToken([s EXCEPT !.indentStack = Pop(@)], "DEDENT", <<>>))
    ELSE s

\* "while (this.peek() !== '\n' && !this.isAtEnd()) this.advance()"
RECURSIVE skipToNewline(_)
skipToNewline(s) ==
    IF Lexer_peek(s) # "\n" /\ ~Lexer_isAtEnd(s)
    THEN skipToNewline(Lexer_advance(s))
    ELSE s

VersionPrefix == <<"/", "/", "@", "v", "e", "r", "s", "i", "o", "n">>

scanComment(s0) ==
    LET start == s0.position - 2
    IN  IF substring(start, start + 10) = VersionPrefix
        THEN LET s1 == skipToNewline(s0)
                 s2 == addToken(s1, "VERSION_DIRECTIVE", substring(start, s1.position))
             IN  IF ~Lexer_isAtEnd(s2) /\ Lexer_peek(s2) = "\n"
                 THEN [Lexer_advance(s2) EXCEPT !.line = s2.line + 1, !.column = 1,
                                               !.atLineStart = TRUE]
                 ELSE s2
        ELSE skipToNewline(s0)

RECURSIVE multiLineCommentLoop(_)
multiLineCommentLoop(s) ==
    IF Lexer_isAtEnd(s) THEN s
    ELSE IF Lexer_peek(s) = "*" /\ peekNext(s) = "/"
         THEN Lexer_advance(Lexer_advance(s))
         ELSE LET s1 == IF Lexer_peek(s) = "\n"
                        THEN [s EXCEPT !.line = @ + 1, !.column = 1]
                        ELSE s
              IN  multiLineCommentLoop(Lexer_advance(s1))

scanMultiLineComment(s0) ==
    LET s == multiLineCommentLoop(s0)
    IN  IF Lexer_isAtEnd(s)
           /\ ~(charAt(s.position - 2) = "*" /\ charAt(s.position - 1) = "/")
        THEN Lexer_addError(s, UNTERMINATED_STRING, "Unterminated multi-line comment")
        ELSE s

RECURSIVE stringLoop(_, _)
stringLoop(s, quote) ==
    IF Lexer_peek(s) # quote /\ ~Lexer_isAtEnd(s)
    THEN IF Lexer_peek(s) = "\\"
         THEN stringLoop(Lexer_advance(Lexer_advance(s)), quote)
         ELSE LET s1 == IF Lexer_peek(s) = "\n"
                        THEN [s EXCEPT !.line = @ + 1, !.column = 1]
                        ELSE s
              IN  stringLoop(Lexer_advance(s1), quote)
    ELSE s

scanString(s0, quote) ==
    LET start == s0.position - 1
        s == stringLoop(s0, quote)
    IN  IF Lexer_isAtEnd(s)
        THEN addToken(Lexer_addError(s, UNTERMINATED_STRING, "Unterminated string literal"),
                      "ERROR", substring(start, s.position))
        ELSE LET s1 == Lexer_advance(s)
             IN  addToken(s1, "STRING", substring(start, s1.position))

RECURSIVE skipDigits(_)
skipDigits(s) == IF isDigit(Lexer_peek(s)) THEN skipDigits(Lexer_advance(s)) ELSE s

\* the lookahead index i of scanNumber: past the digits that follow the '.'
RECURSIVE pastDigits(_)
pastDigits(i) == IF i < Len(source) /\ isDigit(charAt(i)) THEN pastDigits(i + 1) ELSE i

scanNumber(s0) ==
    LET start == s0.position - 1
        startsWithDot == charAt(start) = "."
        s1 == IF ~startsWithDot THEN skipDigits(s0) ELSE s0
        lastToken == IF Len(s1.tokens) > 0 THEN s1.tokens[Len(s1.tokens)].type ELSE "none"
        prevWasDot == lastToken = "DOT"
        i == pastDigits(s1.position + 1)
        shouldSkipDecimal == /\ ~prevWasDot
                             /\ i < Len(source) /\ charAt(i) = "."
                             /\ i + 1 < Len(source) /\ isDigit(charAt(i + 1))
        s2 == IF ~startsWithDot /\ Lexer_peek(s1) = "." /\ isDigit(peekNext(s1))
              THEN IF prevWasDot \/ shouldSkipDecimal
                   THEN s1
                   ELSE skipDigits(Lexer_advance(s1))
              ELSE IF startsWithDot THEN skipDigits(s1) ELSE s1
        next == peekNext(s2)
        hasExponent == /\ Lexer_peek(s2) \in {"e", "E"}
                       /\ (isDigit(next) \/ next = "+" \/ next = "-")
        s3 == Lexer_advance(s2)
        s4 == IF Lexer_peek(s3) \in {"+", "-"} THEN Lexer_advance(s3) ELSE s3
    IN  IF hasExponent
        THEN IF ~isDigit(Lexer_peek(s4))
             THEN Lexer_addError(s4, INVALID_NUMBER_FORMAT,
                      "Invalid number format in scientific notation")
             ELSE LET s5 == skipDigits(s4)
                  IN  addToken(s5, "NUMBER", substring(start, s5.position))
        ELSE addToken(s2, "NUMBER", substring(start, s2.position))

RECURSIVE skipAlphaNumeric(_)
skipAlphaNumeric(s) ==
    IF isAlphaNumeric(Lexer_peek(s)) THEN skipAlphaNumeric(Lexer_advance(s)) ELSE s

scanIdentifier(s0) ==
    LET start == s0.position - 1
        s == skipAlphaNumeric(s0)
        value == substring(start, s.position)
    IN  addToken(s, KEYWORDS(Str(value)), value)

\* a two-character operator, or the one-character token
twoChar(s, second, both, bothValue, single, char) ==
    IF Lexer_matches(s, second)
    THEN addToken(Lexer_match(s, second), both, bothValue)
    ELSE addToken(s, single, <<char>>)

newlineToken(s, value) ==
    [addToken(s, "NEWLINE", value) EXCEPT !.line = s.line + 1, !.column = 1,
                                          !.atLineStart = TRUE]

\* the switch of scanToken
scanChar(s, char) ==
    CASE char \in {" ", "\t"} -> s
      [] char = "\r" ->
            IF Lexer_peek(s) = "\n"
            THEN newlineToken(Lexer_advance(s), <<"\r", "\n">>)
            ELSE newlineToken(s, <<"\r">>)
      [] char = "\n" -> newlineToken(s, <<char>>)
      [] char = "(" -> addToken(s, "LEFT_PAREN", <<char>>)
      [] char = ")" -> addToken(s, "RIGHT_PAREN", <<char>>)
      [] char = "[" -> addToken(s, "LBRACKET", <<char>>)
      [] char = "]" -> addToken(s, "RBRACKET", <<char>>)
      [] char = "," -> addToken(s, "COMMA", <<char>>)
      [] char = "." ->
            IF ~isDigit(IF s.position >= 2 THEN charAt(s.position - 2) ELSE "")
               /\ isDigit(Lexer_peek(s))
            THEN scanNumber(s)
            ELSE addToken(s, "DOT", <<".">>)
      [] char = "?" -> addToken(s, "QUESTION", <<char>>)
      [] char = "+" -> addToken(s, "PLUS", <<char>>)
      [] char = "-" -> addToken(s, "MINUS", <<char>>)
      [] char = "*" -> addToken(s, "MULTIPLY", <<char>>)
      [] char = "%" -> addToken(s, "MODULO", <<char>>)
      [] char = "^" -> addToken(s, "POWER", <<char>>)
      [] char = ":" -> twoChar(s, "=", "ASSIGN", <<":", "=">>, "COLON", char)
      [] char = "=" ->
            IF Lexer_matches(s, "=")
            THEN addToken(Lexer_match(s, "="), "EQ", <<"=", "=">>)
            ELSE IF Lexer_matches(s, ">")
            THEN addToken(Lexer_match(s, ">"), "ARROW", <<"=", ">">>)
            ELSE addToken(s, "EQUAL", <<char>>)
      [] char = "!" ->
            IF Lexer_matches(s, "=")
            THEN addToken(Lexer_match(s, "="), "NE", <<"!", "=">>)
            ELSE Lexer_addError(s, INVALID_CHARACTER, "Unexpected character")
      [] char = "<" -> twoChar(s, "=", "LE", <<"<", "=">>, "LT", char)
      [] char = ">" -> twoChar(s, "=", "GE", <<">", "=">>, "GT", char)
      [] char = "/" ->
            IF Lexer_matches(s, "/")
            THEN scanComment(Lexer_match(s, "/"))
            ELSE IF Lexer_matches(s, "*")
            THEN scanMultiLineComment(Lexer_match(s, "*"))
            ELSE addToken(s, "DIVIDE", <<char>>)
      [] char \in {"\"", "'"} -> scanString(s, char)
      [] OTHER ->
            IF isDigit(char) THEN scanNumber(s)
            ELSE IF isAlpha(char) THEN scanIdentifier(s)
            ELSE addToken(Lexer_addError(s, INVALID_CHARACTER, "Unexpected character"),
                          "ERROR", <<char>>)

scanToken(s0) ==
    LET char == Lexer_peek(s0)
        s1 == Lexer_advance(s0)
    IN  IF s1.atLineStart /\ char \in {" ", "\t"}
        THEN handleIndentation([s1 EXCEPT !.position = @ - 1, !.column = @ - 1])
        ELSE LET s2 == IF s1.atLineStart /\ char \notin {"\n", "\r"}
                          /\ 0 < Top(s1.indentStack)
                       THEN dedentTo(s1, 0)
                       ELSE s1
             IN  scanChar([s2 EXCEPT !.atLineStart = FALSE], char)

\* what tokenize does after its scan loop
finishTokenize(s0) ==
    LET s1 == handleFinalDedents(s0)
        hasRealTokens == \E i \in 1..Len(s1.tokens) :
                             s1.tokens[i].type \notin {"NEWLINE", "EOF"}
        s2 == IF hasRealTokens /\ s1.tokens[Len(s1.tokens)].type # "NEWLINE"
              THEN addToken(s1, "NEWLINE", <<"\n">>)
              ELSE s1
    IN  addToken(s2, "EOF", <<>>)

\* tokenize's scan loop, cut off at a step that consumes nothing
RECURSIVE scanLoop(_)
scanLoop(s) ==
    IF Lexer_isAtEnd(s) THEN s
    ELSE LET next(s1) == IF s1.position <= s.position THEN s1 ELSE scanLoop(s1)
         IN  next(scanToken(s))

tokenize == finishTokenize(scanLoop(Lexer_reset))

-----------------------------------------------------------------------------
(* Parser.  A parser state is the record of the Parser's mutable fields    *)
(* (cur = Parser.current, errs = Parser.errors) and two control marks:     *)
(*   thrown: an Error thrown by error() is propagating to the nearest      *)
(*           catch; every operation is skipped while it is set;            *)
(*   stuck:  a statement loop went through an iteration that consumed no   *)
(*           token and did not exit (the loop would spin for ever).        *)
(* A parse function returns [p |-> state after it, n |-> the node].        *)

Ret(p, n) == [p |-> p, n |-> n]

Parser_reset == [cur |-> 0, errs |-> <<>>, thrown |-> FALSE, stuck |-> FALSE]

\* nothing more is executed of the function that threw, or of a loop that spins
halted(p) == p.thrown \/ p.stuck

\* the value field of an ASTNode: undefined, a string, a number, a boolean or null
ValUndef == [k |-> "undefined", s |-> "", int |-> FALSE]
ValStr(s) == [k |-> "string", s |-> s, int |-> FALSE]
ValNum(chars, isInt) == [k |-> "number", s |-> Str(chars), int |-> isInt]
ValBool(b) == [k |-> "boolean", s |-> IF b THEN "true" ELSE "false", int |-> FALSE]
ValNull == [k |-> "null", s |-> "", int |-> FALSE]

NoFields == <<>>

\* "null" where a statement is expected, and the node of a function that threw
NullNode ==
    [type |-> "null", children |-> <<>>, value |-> ValUndef,
     location |-> [line |-> 0, column |-> 0, length |-> 0], f |-> NoFields]

\* "this.current = checkPoint"
setCurrent(p, cur) == IF halted(p) THEN p ELSE [p EXCEPT !.cur = cur]

\* the token before the first one, and the one peek makes up past the last
StartToken == [type |-> "EOF", value |-> <<>>, line |-> 1, column |-> 1, position |-> 0]

Parser_isAtEnd(p) == p.cur >= Len(tokens) \/ tokens[p.cur + 1].type = "EOF"

Parser_peek(p) ==
    IF p.cur < Len(tokens) THEN tokens[p.cur + 1]
    ELSE IF Len(tokens) > 0
         THEN LET last == tokens[Len(tokens)]
              IN  [type |-> "EOF", value |-> <<>>, line |-> last.line,
                   column |-> last.column + Len(last.value), position |-> p.cur]
         ELSE [type |-> "EOF", value |-> <<>>, line |-> 1, column |-> 1,
               position |-> p.cur]

previous(p) ==
    IF p.cur >= 1 /\ p.cur <= Len(tokens) THEN tokens[p.cur]
    ELSE [StartToken EXCEPT !.position = p.cur - 1]

\* Parser.advance: the state after it (the token returned is previous of it)
Parser_advance(p) ==
    IF ~halted(p) /\ ~Parser_isAtEnd(p) THEN [p EXCEPT !.cur = @ + 1] ELSE p

check(p, type) == ~halted(p) /\ ~Parser_isAtEnd(p) /\ Parser_peek(p).type = type

\* Parser.match(...types): whether one matches, and the state after it
matches(p, types) == \E type \in types : check(p, type)

Parser_match(p, types) == IF matches(p, types) THEN Parser_advance(p) ELSE p

\* "while (this.match(...types)) {}"
RECURSIVE skipTokens(_, _)
skipTokens(p, types) ==
    IF matches(p, types) THEN skipTokens(Parser_advance(p), types) ELSE p

NLC == {"NEWLINE", "COMMENT"}

NLCID == {"NEWLINE", "COMMENT", "INDENT", "DEDENT"}

Parser_addError(p, token, message) ==
    IF halted(p) THEN p
    ELSE [p EXCEPT !.errs = Append(@,
             [type |-> "syntax", severity |-> "error", message |-> message,
              location |-> [line |-> token.line, column |-> token.column,
                            length |-> Len(token.value)],
              code |-> ToString(UNEXPECTED_TOKEN)])]

\* "throw this.error(token, message)"
error(p, token, message) ==
    IF halted(p) THEN p
    ELSE [Parser_addError(p, token, message) EXCEPT !.thrown = TRUE]

\* Parser.consume: [p |-> state after it, tok |-> the token returned]
consume(p, type, message) ==
    IF check(p, type)
    THEN [p |-> Parser_advance(p), tok |-> Parser_peek(p)]
    ELSE [p |-> Parser_addError(p, Parser_peek(p), message),
          tok |-> [type |-> type, value |-> <<>>, line |-> Parser_peek(p).line,
                   column |-> Parser_peek(p).column, position |-> p.cur]]

\* the token createNode and createLiteralNode take the location from
locationToken(p) == IF p.cur > 0 THEN previous(p) ELSE StartToken

\* Only the named fields that are not among the children are kept in f: the
\* test/consequent/alternate of an if statement and the operator of a unary
\* expression.  The other named fields the parser sets (left, right, callee, arguments, id, init, body, ...) alias
\* nodes that are children too.
createNode(p, type, children, value) ==
    [type |-> type, children |-> children, value |-> value,
     location |-> [line |-> locationToken(p).line,
                   column |-> locationToken(p).column,
                   length |-> Len(locationToken(p).value)],
     f |-> NoFields]

createBinaryNode(p, left, operator, right) ==
    [createNode(p, "BINARY_EXPRESSION", <<left, right>>, ValStr(Str(operator.value)))
        EXCEPT !.location = [line |-> operator.line, column |-> operator.column,
                             length |-> Len(operator.value)]]

createIdentifierNode(token) ==
    [type |-> "IDENTIFIER", children |-> <<>>, value |-> ValStr(Str(token.value)),
     location |-> [line |-> token.line, column |-> token.column,
                   length |-> Len(token.value)],
     f |-> NoFields]

createLiteralNode(p, value) ==
    [type |-> "LITERAL", children |-> <<>>, value |-> value,
     location |-> [line |-> locationToken(p).line,
                   column |-> locationToken(p).column,
                   length |-> Len(locationToken(p).value)],
     f |-> NoFields]

\* --- the number a NUMBER token's text stands for: is it an integer? ---

DigitValue(char) ==
    CASE char = "0" -> 0 [] char = "1" -> 1 [] char = "2" -> 2 [] char = "3" -> 3
      [] char = "4" -> 4 [] char = "5" -> 5 [] char = "6" -> 6 [] char = "7" -> 7
      [] char = "8" -> 8 [] char = "9" -> 9 [] OTHER -> 0

RECURSIVE DigitsValue(_)
DigitsValue(chars) ==
    IF chars = <<>> THEN 0
    ELSE 10 * DigitsValue(SubSeq(chars, 1, Len(chars) - 1)) + DigitValue(chars[Len(chars)])

\* the first index at which one of the characters stands, or Len + 1
FirstIndex(chars, set) ==
    IF \E i \in 1..Len(chars) : chars[i] \in set
    THEN CHOOSE i \in 1..Len(chars) :
             chars[i] \in set /\ \A j \in 1..(i - 1) : chars[j] \notin set
    ELSE Len(chars) + 1

\* the number of zeros a digit string ends with
RECURSIVE TrailingZeros(_)
TrailingZeros(chars) ==
    IF chars # <<>> /\ chars[Len(chars)] = "0"
    THEN 1 + TrailingZeros(SubSeq(chars, 1, Len(chars) - 1))
    ELSE 0

includesDot(chars) == \E i \in 1..Len(chars) : chars[i] = "."

\* Number.isInteger(parseFloat(text)) for the text of a NUMBER token:
\* mantissa digits m (the fraction cut after its last non-zero digit, k digits
\* of it kept) and exponent x give m * 10^(x - k)
parseFloatIsInteger(chars) ==
    LET e == FirstIndex(chars, {"e", "E"})
        mantissa == SubSeq(chars, 1, e - 1)
        dot == FirstIndex(mantissa, {"."})
        whole == SubSeq(mantissa, 1, dot - 1)
        fraction == SubSeq(mantissa, dot + 1, Len(mantissa))
        k == Len(fraction) - TrailingZeros(fraction)
        m == whole \o SubSeq(fraction, 1, k)
        expText == SubSeq(chars, e + 1, Len(chars))
        negative == expText # <<>> /\ expText[1] = "-"
        signed == expText # <<>> /\ expText[1] \in {"+", "-"}
        magnitude == DigitsValue(IF signed THEN Tail(expText) ELSE expText)
        x == IF negative THEN 0 - magnitude ELSE magnitude
    IN  \/ DigitsValue(m) = 0
        \/ x - k >= 0
        \/ TrailingZeros(m) >= k - x

\* "value.includes('.') ? parseFloat(value) : parseInt(value)": parseInt stops
\* at the first non-digit and always gives an integer
numberLiteral(chars) ==
    ValNum(chars, IF includesDot(chars) THEN parseFloatIsInteger(chars) ELSE TRUE)

\* --- expressions ---
\* A function that threw leaves the state thrown; each caller tests it right
\* after the call and returns, the node it returns with it is never used.

RECURSIVE parseExpression(_), parseSequence(_), sequenceLoop(_, _),
          parseAssignment(_), assignmentRest(_), parseConditional(_),
          conditionalRest(_), parseLogicalOr(_),
          logicalOrLoop(_, _), parseLogicalAnd(_), logicalAndLoop(_, _),
          parseEquality(_), equalityLoop(_, _), parseComparison(_),
          comparisonLoop(_, _), parseTerm(_), termLoop(_, _), parseFactor(_),
          factorLoop(_, _), parseUnary(_), parsePower(_), parseCall(_),
          callLoop(_, _), finishCall(_, _), argumentsLoop(_, _),
          parsePrimary(_), elementsLoop(_, _), parseParameter(_), descend(_, _),
          climb(_, _, _), callParser(_, _)

\* the loop of parseSequence after its first parseAssignment
sequenceLoop(p0, left) ==
    IF ~matches(p0, {"COMMA"}) THEN Ret(p0, left)
    ELSE LET operator == Parser_peek(p0)
             p == skipTokens(Parser_advance(p0), NLC)
         IN  IF check(p, "RIGHT_PAREN") \/ check(p, "RBRACKET") \/ Parser_isAtEnd(p)
             THEN Ret(p, left)
             ELSE IF check(p, "COMMA")
             THEN sequenceLoop(p, createBinaryNode(p, left, operator,
                                                   createLiteralNode(p, ValNull)))
             ELSE LET r == parseAssignment(p)
                  IN  IF r.p.thrown THEN r
                      ELSE sequenceLoop(r.p, createBinaryNode(r.p, left, operator, r.n))

\* parseAssignment after its parseConditional returned e
assignmentRest(e) ==
    IF ~matches(e.p, {"ASSIGN", "EQUAL"}) THEN e
    ELSE LET v == parseAssignment(Parser_advance(e.p))
         IN  IF v.p.thrown THEN v
             ELSE IF e.n.type \in {"IDENTIFIER", "ARRAY_LITERAL"}
             THEN Ret(v.p, createNode(v.p, "ASSIGNMENT", <<e.n, v.n>>, ValUndef))
             ELSE Ret(Parser_addError(v.p, previous(v.p), "Invalid assignment target"),
                      e.n)

\* parseConditional after its parseLogicalOr returned e
conditionalRest(e) ==
    IF ~matches(e.p, {"QUESTION"}) THEN e
    ELSE LET thenExpr == callParser("parseExpression", Parser_advance(e.p))
             c == consume(thenExpr.p, "COLON",
                          "Expected \":\" after \"?\" in conditional expression")
             elseExpr == callParser("parseExpression", c.p)
         IN  CASE thenExpr.p.thrown -> thenExpr
               [] elseExpr.p.thrown -> elseExpr
               [] OTHER ->
                    Ret(elseExpr.p,
                        createNode(elseExpr.p, "CONDITIONAL_EXPRESSION",
                                   <<e.n, thenExpr.n, elseExpr.n>>, ValUndef))

logicalOrLoop(p, expr) ==
    IF ~matches(p, {"OR"}) THEN Ret(p, expr)
    ELSE LET r == parseLogicalAnd(Parser_advance(p))
         IN  IF r.p.thrown THEN r
             ELSE logicalOrLoop(r.p, createBinaryNode(r.p, expr, Parser_peek(p), r.n))

logicalAndLoop(p, expr) ==
    IF ~matches(p, {"AND"}) THEN Ret(p, expr)
    ELSE LET r == parseEquality(Parser_advance(p))
         IN  IF r.p.thrown THEN r
             ELSE logicalAndLoop(r.p, createBinaryNode(r.p, expr, Parser_peek(p), r.n))

equalityLoop(p, expr) ==
    IF ~matches(p, {"EQ", "NE"}) THEN Ret(p, expr)
    ELSE LET r == parseComparison(Parser_advance(p))
         IN  IF r.p.thrown THEN r
             ELSE equalityLoop(r.p, createBinaryNode(r.p, expr, Parser_peek(p), r.n))

comparisonLoop(p, expr) ==
    IF ~matches(p, {"GT", "GE", "LT", "LE"}) THEN Ret(p, expr)
    ELSE LET r == parseTerm(Parser_advance(p))
         IN  IF r.p.thrown THEN r
             ELSE comparisonLoop(r.p, createBinaryNode(r.p, expr, Parser_peek(p), r.n))

\* after an operator: skip the layout tokens, throw at EOF (check never
\* holds for EOF, isAtEnd comes first in it)
beforeOperand(p0) ==
    LET p == skipTokens(p0, NLCID)
    IN  IF check(p, "EOF") THEN error(p, Parser_peek(p), "Unexpected end of input")
        ELSE p

\* termLoop with its right operand parsed by parseTerm
termLoop_operandTerm(p, expr) ==
    IF ~matches(p, {"PLUS", "MINUS"}) THEN Ret(p, expr)
    ELSE LET r == parseTerm(beforeOperand(Parser_advance(p)))
         IN  IF r.p.thrown THEN r
             ELSE termLoop(r.p, createBinaryNode(r.p, expr, Parser_peek(p), r.n))

termLoop(p, expr) ==
    IF ~matches(p, {"PLUS", "MINUS"}) THEN Ret(p, expr)
    ELSE LET r == parseFactor(beforeOperand(Parser_advance(p)))
         IN  IF r.p.thrown THEN r
             ELSE termLoop(r.p, createBinaryNode(r.p, expr, Parser_peek(p), r.n))

factorLoop(p, expr) ==
    IF ~matches(p, {"MULTIPLY", "DIVIDE", "MODULO"}) THEN Ret(p, expr)
    ELSE LET r == callParser("parseUnary", beforeOperand(Parser_advance(p)))
         IN  IF r.p.thrown THEN r
             ELSE factorLoop(r.p, createBinaryNode(r.p, expr, Parser_peek(p), r.n))

\* The functions of the expression grammar that begin with a call of the next
\* one, outermost first.
Levels ==
    <<"parseSequence", "parseAssignment", "parseConditional", "parseLogicalOr",
      "parseLogicalAnd", "parseEquality", "parseComparison", "parseTerm",
      "parseFactor">>

Level(name) == CHOOSE i \in 1..Len(Levels) : Levels[i] = name

\* what is left of the function called name after its first call returned e
restOf(name, e) ==
    CASE name = "parseFactor" -> factorLoop(e.p, e.n)
      [] name = "parseTerm" -> termLoop(e.p, e.n)
      [] name = "parseComparison" -> comparisonLoop(e.p, e.n)
      [] name = "parseEquality" -> equalityLoop(e.p, e.n)
      [] name = "parseLogicalAnd" -> logicalAndLoop(e.p, e.n)
      [] name = "parseLogicalOr" -> logicalOrLoop(e.p, e.n)
      [] name = "parseConditional" -> conditionalRest(e)
      [] name = "parseAssignment" -> assignmentRest(e)
      [] name = "parseSequence" -> sequenceLoop(e.p, e.n)

\* the functions from the one of level k out to the one of the level asked
\* for, each going on after its first call returned e; a thrown error passes
\* through all of them
climb(level, k, e) ==
    IF e.p.thrown \/ k < level THEN e
    ELSE climb(level, k - 1, restOf(Levels[k], e))

\* parseSequence down to parseFactor each begin by calling the next one, so
\* the first thing any of them parses is a unary expression.  descend(p0, level)
\* is the function of the level with those first calls unfolded: the unary
\* expression, then what is left of each function from parseFactor out to the
\* level's, a thrown error passing through all of them.
descend(p0, level) == climb(level, Len(Levels), callParser("parseUnary", p0))

parseExpression(p) == parseSequence(p)

parseSequence(p0) == descend(p0, Level("parseSequence"))

parseAssignment(p0) == descend(p0, Level("parseAssignment"))

parseConditional(p0) == descend(p0, Level("parseConditional"))

parseLogicalOr(p0) == descend(p0, Level("parseLogicalOr"))

parseLogicalAnd(p0) == descend(p0, Level("parseLogicalAnd"))

parseEquality(p0) == descend(p0, Level("parseEquality"))

parseComparison(p0) == descend(p0, Level("parseComparison"))

parseTerm(p0) == descend(p0, Level("parseTerm"))

parseFactor(p0) == descend(p0, Level("parseFactor"))

parseUnary(p) ==
    IF matches(p, {"NOT", "MINUS", "PLUS"})
    THEN LET r == callParser("parseUnary", beforeOperand(Parser_advance(p)))
         IN  IF r.p.thrown THEN r
             ELSE Ret(r.p, [createNode(r.p, "UNARY_EXPRESSION", <<r.n>>, ValUndef)
                               EXCEPT !.f = [operator |-> Str(Parser_peek(p).value)]])
    ELSE callParser("parsePower", p)

\* parsePower, its call of parseCall unfolded
parsePower(p0) ==
    LET power(e) ==
            LET r == callParser("parseUnary", beforeOperand(Parser_advance(e.p)))
            IN  CASE e.p.thrown -> e
                  [] ~matches(e.p, {"POWER"}) -> e
                  [] r.p.thrown -> r
                  [] OTHER -> Ret(r.p, createBinaryNode(r.p, e.n, Parser_peek(e.p), r.n))
        call(primary) ==
            IF primary.p.thrown THEN primary
            ELSE power(callLoop(primary.p, primary.n))
    IN  call(callParser("parsePrimary", p0))

parseCall(p0) ==
    LET r == callParser("parsePrimary", p0)
    IN  IF r.p.thrown THEN r ELSE callLoop(r.p, r.n)

callLoop(p, expr) ==
    IF matches(p, {"LEFT_PAREN"})
    THEN LET next(r) == IF r.p.thrown THEN r ELSE callLoop(r.p, r.n)
         IN  next(finishCall(Parser_advance(p), expr))
    ELSE IF matches(p, {"LBRACKET"})
    THEN LET index == callParser("parseExpression", Parser_advance(p))
             c == consume(index.p, "RBRACKET", "Expected \"]\" after array index")
         IN  IF index.p.thrown THEN index
             ELSE callLoop(c.p, createNode(c.p, "ARRAY_ACCESS", <<expr, index.n>>,
                                           ValUndef))
    ELSE IF matches(p, {"DOT"})
    THEN LET c == consume(Parser_advance(p), "IDENTIFIER",
                          "Expected property name after \".\"")
         IN  callLoop(c.p, createNode(c.p, "MEMBER_EXPRESSION",
                                      <<expr, createIdentifierNode(c.tok)>>, ValUndef))
    ELSE Ret(p, expr)

\* the do-while of finishCall; n is the list of arguments
argumentsLoop(p0, args) ==
    LET p == skipTokens(p0, NLCID)
    IN  IF check(p, "RIGHT_PAREN") THEN Ret(p, args)
        ELSE LET r == callParser("parseParameter", p)
                 q == skipTokens(r.p, NLCID)
             IN  IF r.p.thrown THEN r
                 ELSE IF matches(q, {"COMMA"})
                 THEN argumentsLoop(skipTokens(Parser_advance(q), NLCID), Append(args, r.n))
                 ELSE Ret(q, Append(args, r.n))

finishCall(p0, callee) ==
    LET p == skipTokens(p0, NLCID)
        close(a) ==
            LET c == consume(skipTokens(a.p, NLCID), "RIGHT_PAREN",
                             "Expected \")\" after function arguments")
            IN  IF a.p.thrown THEN a
                ELSE Ret(c.p, createNode(c.p, "CALL_EXPRESSION", <<callee>> \o a.n,
                                         ValUndef))
    IN  close(IF ~check(p, "RIGHT_PAREN") THEN argumentsLoop(p, <<>>) ELSE Ret(p, <<>>))

\* the do-while of the array literal; n is the list of elements
elementsLoop(p0, elements) ==
    LET p == skipTokens(p0, NLC)
    IN  IF check(p, "RBRACKET") THEN Ret(p, elements)
        ELSE LET r == callParser("parseAssignment", p)
                 q == skipTokens(r.p, NLC)
             IN  IF r.p.thrown THEN r
                 ELSE IF matches(q, {"COMMA"})
                 THEN elementsLoop(skipTokens(Parser_advance(q), NLC), Append(elements, r.n))
                 ELSE Ret(q, Append(elements, r.n))

parsePrimary(p0) ==
    IF halted(p0) THEN Ret(p0, NullNode)
    ELSE
    LET p == skipTokens(p0, NLCID)
        q == Parser_advance(p)
    IN  CASE check(p, "TRUE") -> Ret(q, createLiteralNode(q, ValBool(TRUE)))
          [] check(p, "FALSE") -> Ret(q, createLiteralNode(q, ValBool(FALSE)))
          [] check(p, "NA") -> Ret(q, createLiteralNode(q, ValNull))
          [] check(p, "NUMBER") ->
                Ret(q, createLiteralNode(q, numberLiteral(Parser_peek(p).value)))
          [] check(p, "STRING") ->
                Ret(q, createLiteralNode(q, ValStr(Str(Parser_peek(p).value))))
          [] check(p, "IDENTIFIER") -> Ret(q, createIdentifierNode(Parser_peek(p)))
          [] check(p, "STRATEGY") \/ check(p, "PLOT") \/ check(p, "INDICATOR") ->
                Ret(q, createIdentifierNode(Parser_peek(p)))
          [] check(p, "LEFT_PAREN") ->
                LET expr == callParser("parseExpression", skipTokens(q, NLC))
                    c == consume(skipTokens(expr.p, NLC), "RIGHT_PAREN",
                                 "Expected \")\" after expression")
                IN  IF expr.p.thrown THEN expr ELSE Ret(c.p, expr.n)
          [] check(p, "LBRACKET") ->
                LET q1 == skipTokens(q, NLC)
                    e == IF ~check(q1, "RBRACKET") THEN elementsLoop(q1, <<>>)
                         ELSE Ret(q1, <<>>)
                    c == consume(e.p, "RBRACKET", "Expected \"]\" after array elements")
                IN  IF e.p.thrown THEN e
                    ELSE Ret(c.p, createNode(c.p, "ARRAY_LITERAL", e.n, ValUndef))
          [] OTHER ->
                IF check(p, "EOF")
                THEN Ret(error(p, Parser_peek(p), "Unexpected end of input"), NullNode)
                ELSE Ret(error(p, Parser_peek(p), "Expected expression"), NullNode)

parseParameter(p0) ==
    LET p == skipTokens(p0, NLCID)
        q == skipTokens(Parser_advance(p), NLCID)
    IN  IF check(p, "IDENTIFIER") /\ matches(q, {"EQUAL"})
        THEN LET value == callParser("parseAssignment", skipTokens(Parser_advance(q), NLCID))
                 nameNode == createIdentifierNode(Parser_peek(p))
             IN  IF value.p.thrown THEN value
                 ELSE Ret(value.p, createNode(value.p, "ASSIGNMENT",
                                              <<nameNode, value.n>>, ValUndef))
        ELSE callParser("parseAssignment", p)

\* --- statements ---

UpperCase == <<"A", "B", "C", "F", "G", "I", "L", "N", "O", "R", "S", "T">>

LowerCase == <<"a", "b", "c", "f", "g", "i", "l", "n", "o", "r", "s", "t">>

\* String.toLowerCase on the letters that occur in the type keywords; no
\* other letter can turn a text into one of them
toLowerCase(chars) ==
    [i \in 1..Len(chars) |->
        IF \E j \in 1..Len(UpperCase) : UpperCase[j] = chars[i]
        THEN LowerCase[CHOOSE j \in 1..Len(UpperCase) : UpperCase[j] = chars[i]]
        ELSE chars[i]]

isTypeKeyword(token) ==
    /\ token.type = "IDENTIFIER"
    /\ Str(toLowerCase(token.value)) \in {"int", "float", "bool", "string", "color"}

SyncTypes == {"STRATEGY", "INDICATOR", "VAR", "VARIP", "PLOT", "IF", "FOR", "WHILE"}

RECURSIVE synchronizeLoop(_)
synchronizeLoop(p) ==
    IF Parser_isAtEnd(p) THEN p
    ELSE IF previous(p).type = "NEWLINE" THEN p
    ELSE IF Parser_peek(p).type \in SyncTypes THEN p
    ELSE synchronizeLoop(Parser_advance(p))

\* leaves the token that made the statement fail where it is
synchronize_withoutAdvance(p) == synchronizeLoop(p)

synchronize(p) == synchronizeLoop(Parser_advance(p))

RECURSIVE parseStatement(_), parseStatementBody(_), parseBlock(_), blockLoop(_, _),
          nestedLoop(_, _), parseIfStatement(_), parseForStatement(_),
          parseWhileStatement(_), parseExpressionStatement(_), functionBodyLoop(_, _)

\* the while (true) of parseTypedVariableDeclaration; n is the declarations
RECURSIVE typedDeclarationsLoop(_, _, _)
typedDeclarationsLoop(p0, typeToken, declarations) ==
    LET c == consume(skipTokens(p0, NLC), "IDENTIFIER", "Expected variable name")
        hasInit == matches(c.p, {"ASSIGN", "EQUAL"})
        init == IF hasInit THEN callParser("parseExpression", Parser_advance(c.p))
                ELSE Ret(c.p, NullNode)
        children == IF hasInit THEN <<createIdentifierNode(c.tok), init.n>>
                    ELSE <<createIdentifierNode(c.tok)>>
        node == createNode(init.p, "VARIABLE_DECLARATION", children,
                           ValStr(Str(typeToken.value)))
        q == skipTokens(init.p, NLC)
    IN  IF init.p.thrown THEN init
        ELSE IF matches(q, {"COMMA"})
        THEN typedDeclarationsLoop(Parser_advance(q), typeToken, Append(declarations, node))
        ELSE Ret(q, Append(declarations, node))

parseTypedVariableDeclaration(p) ==
    LET group(d) ==
            IF d.p.thrown THEN d
            ELSE IF Len(d.n) = 1 THEN Ret(d.p, d.n[1])
            ELSE Ret(d.p, createNode(d.p, "BLOCK", d.n, ValUndef))
    IN  group(typedDeclarationsLoop(Parser_advance(p), Parser_peek(p), <<>>))

parseVariableDeclaration(p) ==
    LET varToken == previous(p)
        c == consume(p, "IDENTIFIER", "Expected variable name")
        hasInit == matches(c.p, {"ASSIGN", "EQUAL"})
        init == IF hasInit THEN callParser("parseExpression", Parser_advance(c.p))
                ELSE Ret(c.p, NullNode)
        children == IF hasInit THEN <<createIdentifierNode(c.tok), init.n>>
                    ELSE <<createIdentifierNode(c.tok)>>
        node == createNode(init.p, "VARIABLE_DECLARATION", children,
                           ValStr(Str(varToken.value)))
        next == Parser_peek(init.p)
        isTerminator == next.type \in {"NEWLINE", "DEDENT", "EOF", "RIGHT_PAREN",
                                       "RBRACKET", "COMMA"}
        isStmtStart == next.type \in {"VAR", "VARIP", "IF", "FOR", "WHILE", "PLOT",
                                      "IDENTIFIER", "LBRACKET"}
    IN  IF init.p.thrown THEN init
        ELSE IF ~isTerminator /\ isStmtStart
        THEN Ret(Parser_addError(init.p, next,
                                 "Missing semicolon or newline between statements"), node)
        ELSE Ret(init.p, node)

parseDeclarationFromKeyword(p, keywordToken, nodeType) ==
    LET c == consume(p, "LEFT_PAREN",
                     "Expected \"(\" after \"" \o Str(keywordToken.value) \o "\"")
        calleeNode == createIdentifierNode([keywordToken EXCEPT !.type = "IDENTIFIER"])
        declaration(callExpression) ==
            LET args == Tail(callExpression.n.children)
            IN  IF callExpression.p.thrown THEN callExpression
                ELSE Ret(callExpression.p,
                         createNode(callExpression.p, nodeType, args, ValUndef))
    IN  declaration(finishCall(c.p, calleeNode))

parseStrategyDeclaration(p, keywordToken) ==
    parseDeclarationFromKeyword(p, keywordToken, "STRATEGY_DECLARATION")

parseIndicatorDeclaration(p, keywordToken) ==
    parseDeclarationFromKeyword(p, keywordToken, "INDICATOR_DECLARATION")

\* the while (true) of parsePlotStatement; n is the parameters
RECURSIVE plotParametersLoop(_, _)
plotParametersLoop(p0, parameters) ==
    LET p == skipTokens(p0, NLCID)
        q == skipTokens(Parser_advance(p), NLCID)
    IN  IF ~matches(p, {"COMMA"}) THEN Ret(p, parameters)
        ELSE IF check(q, "RIGHT_PAREN") \/ check(q, "RBRACKET") \/ Parser_isAtEnd(q)
        THEN Ret(q, parameters)
        ELSE LET r == callParser("parseParameter", q)
             IN  IF r.p.thrown THEN r
                 ELSE plotParametersLoop(r.p, Append(parameters, r.n))

parsePlotStatement(p0) ==
    LET plotToken == previous(p0)
        c == consume(p0, "LEFT_PAREN", "Expected \"(\" after \"plot\"")
        p == skipTokens(c.p, NLCID)
        calleeNode == createIdentifierNode([plotToken EXCEPT !.type = "IDENTIFIER"])
        statement(params) ==
            LET e == consume(skipTokens(params.p, NLCID), "RIGHT_PAREN",
                             "Expected \")\" after plot parameters")
                callExpr == createNode(e.p, "CALL_EXPRESSION", <<calleeNode>> \o params.n,
                                       ValUndef)
            IN  IF params.p.thrown THEN params
                ELSE Ret(e.p, createNode(e.p, "PLOT_STATEMENT", <<callExpr>>, ValUndef))
        rest(first) ==
            IF first.p.thrown THEN first ELSE plotParametersLoop(first.p, <<first.n>>)
    IN  statement(IF check(p, "RIGHT_PAREN") THEN Ret(p, <<>>)
                  ELSE rest(callParser("parseParameter", p)))

parseIfStatement(p0) ==
    LET condition == callParser("parseExpression", p0)
        thenBranch == callParser("parseBlock", condition.p)
        hasElse == matches(thenBranch.p, {"ELSE"})
        elseBranch == IF hasElse THEN callParser("parseBlock", Parser_advance(thenBranch.p))
                      ELSE Ret(thenBranch.p, NullNode)
        fields == IF hasElse
                  THEN [name \in {"test", "consequent", "alternate"} |->
                           CASE name = "test" -> condition.n
                             [] name = "consequent" -> thenBranch.n
                             [] OTHER -> elseBranch.n]
                  ELSE [name \in {"test", "consequent"} |->
                           IF name = "test" THEN condition.n ELSE thenBranch.n]
    IN  CASE condition.p.thrown -> condition
          [] thenBranch.p.thrown -> thenBranch
          [] elseBranch.p.thrown -> elseBranch
          [] OTHER ->
                Ret(elseBranch.p,
                    [createNode(elseBranch.p, "IF_STATEMENT", <<>>, ValUndef)
                        EXCEPT !.f = fields])

parseForStatement(p0) ==
    LET variable == consume(p0, "IDENTIFIER", "Expected variable name in for loop")
        eq == consume(variable.p, "EQUAL", "Expected \"=\" after for loop variable")
        loop(start, end, step, body) ==
            LET hasStep == matches(end.p, {"BY"})
                children ==
                    IF hasStep
                    THEN <<createIdentifierNode(variable.tok), start.n, end.n, step.n, body.n>>
                    ELSE <<createIdentifierNode(variable.tok), start.n, end.n, body.n>>
            IN  CASE start.p.thrown -> start
                  [] end.p.thrown -> end
                  [] step.p.thrown -> step
                  [] body.p.thrown -> body
                  [] OTHER -> Ret(body.p, createNode(body.p, "FOR_STATEMENT", children,
                                                     ValUndef))
        withStep(start, end, step) ==
            loop(start, end, step, callParser("parseBlock", step.p))
        withEnd(start, end) ==
            withStep(start, end,
                     IF matches(end.p, {"BY"})
                     THEN callParser("parseExpression", Parser_advance(end.p))
                     ELSE Ret(end.p, NullNode))
        withStart(start) ==
            withEnd(start,
                    callParser("parseExpression",
                               consume(start.p, "TO", "Expected \"to\" in for loop").p))
    IN  withStart(callParser("parseExpression", eq.p))

parseWhileStatement(p0) ==
    LET condition == callParser("parseExpression", p0)
        body == callParser("parseBlock", condition.p)
    IN  CASE condition.p.thrown -> condition
          [] body.p.thrown -> body
          [] OTHER -> Ret(body.p, createNode(body.p, "WHILE_STATEMENT",
                                             <<condition.n, body.n>>, ValUndef))

\* the look-ahead of parseExpressionStatement over the parameter list
RECURSIVE parenScan(_, _)
parenScan(p, parenCount) ==
    IF parenCount > 0 /\ ~Parser_isAtEnd(p)
    THEN parenScan(Parser_advance(p),
                   IF check(p, "LEFT_PAREN") THEN parenCount + 1
                   ELSE IF check(p, "RIGHT_PAREN") THEN parenCount - 1
                   ELSE parenCount)
    ELSE p

\* the do-while over the parameters of a function definition
RECURSIVE paramsLoop(_, _)
paramsLoop(p0, params) ==
    LET p == skipTokens(p0, NLC)
        c == consume(p, "IDENTIFIER", "Expected parameter name")
        q == skipTokens(c.p, NLC)
    IN  IF check(p, "RIGHT_PAREN") THEN Ret(p, params)
        ELSE IF matches(q, {"COMMA"})
        THEN paramsLoop(skipTokens(Parser_advance(q), NLC),
                        Append(params, createIdentifierNode(c.tok)))
        ELSE Ret(q, Append(params, createIdentifierNode(c.tok)))

\* a statement loop met an iteration that consumed nothing and did not exit
markStuck(p) == [p EXCEPT !.stuck = TRUE]

\* the while loop over the statements of a multi-line function body
functionBodyLoop(p0, list) ==
    IF halted(p0) \/ check(p0, "DEDENT") \/ Parser_isAtEnd(p0) THEN Ret(p0, list)
    ELSE LET p == skipTokens(p0, NLC)
             stmt == callParser("parseStatement", p)
             next == IF stmt.n.type # "null" THEN Append(list, stmt.n)
                     ELSE list
         IN  IF check(p, "DEDENT") \/ Parser_isAtEnd(p) THEN Ret(p, list)
             ELSE IF stmt.p.cur = p0.cur THEN Ret(markStuck(stmt.p), next)
             ELSE functionBodyLoop(stmt.p, next)

\* the function definition after "identifier (" when an arrow follows the ")"
parseFunctionDefinition(p0, id) ==
    LET p == skipTokens(p0, NLC)
        declaration(params, body) ==
            IF body.p.thrown THEN body
            ELSE
            Ret(body.p, createNode(body.p, "FUNCTION_DECLARATION",
                                   <<createIdentifierNode(id)>> \o params.n \o <<body.n>>,
                                   ValUndef))
        block(stmts) ==
            LET dedent == consume(stmts.p, "DEDENT", "Expected dedent after function body")
            IN  Ret(dedent.p, createNode(dedent.p, "BLOCK", stmts.n, ValUndef))
        bodyAt(q) ==
            IF matches(q, {"INDENT"})
            THEN block(functionBodyLoop(Parser_advance(q), <<>>))
            ELSE callParser("parseExpression", q)
        definition(params) ==
            LET rp == consume(params.p, "RIGHT_PAREN",
                              "Expected \")\" after function parameters")
                arrow == consume(skipTokens(rp.p, NLC), "ARROW",
                                 "Expected \"=>\" after function parameters")
            IN  declaration(params, bodyAt(skipTokens(arrow.p, NLC)))
    IN  definition(IF ~check(p, "RIGHT_PAREN") THEN paramsLoop(p, <<>>) ELSE Ret(p, <<>>))

parseExpressionStatement(p0) ==
    IF halted(p0) THEN Ret(p0, NullNode)
    ELSE
    LET id == Parser_peek(p0)
        p == skipTokens(Parser_advance(p0), NLC)
        scanPoint == Parser_advance(p)
        foundArrow == check(skipTokens(parenScan(scanPoint, 1), NLC), "ARROW")
    IN  IF check(p0, "IDENTIFIER") /\ matches(p, {"LEFT_PAREN"}) /\ foundArrow
        THEN parseFunctionDefinition(scanPoint, id)
        ELSE callParser("parseExpression", p0)

\* the inner while of parseBlock, over a nested indentation
nestedLoop(p0, list) ==
    IF halted(p0) \/ check(p0, "DEDENT") \/ Parser_isAtEnd(p0) THEN Ret(p0, list)
    ELSE LET p == skipTokens(p0, NLC)
             inner == callParser("parseStatement", p)
             next == IF inner.n.type # "null" THEN Append(list, inner.n) ELSE list
         IN  IF check(p, "DEDENT") \/ Parser_isAtEnd(p) THEN Ret(p, list)
             ELSE IF inner.p.cur = p0.cur THEN Ret(markStuck(inner.p), next)
             ELSE nestedLoop(inner.p, next)

\* the outer while of parseBlock
blockLoop(p0, list) ==
    IF halted(p0) \/ check(p0, "DEDENT") \/ Parser_isAtEnd(p0)
    THEN Ret(p0, list)
    ELSE LET p == skipTokens(p0, NLC)
             nested == nestedLoop(Parser_advance(p), list)
             closed == consume(nested.p, "DEDENT",
                               "Expected dedent to close nested indentation")
             stmt == callParser("parseStatement", p)
             next == IF stmt.n.type # "null" THEN Append(list, stmt.n) ELSE list
         IN  IF check(p, "DEDENT") \/ Parser_isAtEnd(p) THEN Ret(p, list)
             ELSE IF matches(p, {"INDENT"}) THEN blockLoop(closed.p, nested.n)
             ELSE IF stmt.p.cur = p0.cur THEN Ret(markStuck(stmt.p), next)
             ELSE blockLoop(stmt.p, next)

parseBlock(p0) ==
    IF halted(p0) THEN Ret(p0, NullNode)
    ELSE
    LET p == skipTokens(p0, NLC)
        stmts == blockLoop(Parser_advance(p), <<>>)
        dedent == consume(stmts.p, "DEDENT", "Expected dedent after block")
        single == callParser("parseStatement", skipTokens(p, NLC))
    IN  IF matches(p, {"INDENT"})
        THEN IF stmts.p.stuck THEN stmts
             ELSE Ret(dedent.p, createNode(dedent.p, "BLOCK", stmts.n, ValUndef))
        ELSE IF single.p.stuck THEN single
        ELSE Ret(single.p,
                 createNode(single.p, "BLOCK",
                            IF single.n.type # "null" THEN <<single.n>> ELSE <<>>,
                            ValUndef))

\* the try block of parseStatement
parseStatementBody(p0) ==
    LET p == skipTokens(p0, {"NEWLINE", "COMMENT", "VERSION_DIRECTIVE"})
        q == Parser_advance(p)
        arrayLiteral == callParser("parsePrimary", p)
        value == callParser("parseExpression", Parser_advance(arrayLiteral.p))
    IN  CASE Parser_isAtEnd(p) -> Ret(p, NullNode)
          [] check(p, "STRATEGY") -> parseStrategyDeclaration(q, previous(q))
          [] check(p, "INDICATOR") -> parseIndicatorDeclaration(q, previous(q))
          [] check(p, "IDENTIFIER") /\ isTypeKeyword(Parser_peek(p)) ->
                parseTypedVariableDeclaration(p)
          [] matches(p, {"VAR", "VARIP"}) -> parseVariableDeclaration(q)
          [] check(p, "PLOT") -> parsePlotStatement(q)
          [] check(p, "IF") -> parseIfStatement(q)
          [] check(p, "FOR") -> parseForStatement(q)
          [] check(p, "WHILE") -> parseWhileStatement(q)
          [] check(p, "LBRACKET") ->
                IF arrayLiteral.p.thrown THEN arrayLiteral
                ELSE IF matches(arrayLiteral.p, {"ASSIGN", "EQUAL"})
                THEN IF value.p.thrown THEN value ELSE
                     Ret(value.p, createNode(value.p, "ASSIGNMENT",
                                             <<arrayLiteral.n, value.n>>, ValUndef))
                ELSE parseExpressionStatement(setCurrent(arrayLiteral.p, p.cur))
          [] OTHER -> parseExpressionStatement(p)

\* parseStatement: the catch block synchronizes and returns null
parseStatement(p0) ==
    IF halted(p0) THEN Ret(p0, NullNode)
    ELSE LET catch(r) ==
                 IF r.p.thrown
                 THEN Ret(synchronize([r.p EXCEPT !.thrown = FALSE]), NullNode)
                 ELSE r
         IN  catch(parseStatementBody(p0))

\* this.<method>(): the call of a method of the parser by its name; the
\* methods that call one another reach each other through it
callParser(method, p) ==
    CASE method = "parseStatement" -> parseStatement(p)
      [] method = "parseBlock" -> parseBlock(p)
      [] method = "parseExpression" -> parseExpression(p)
      [] method = "parseAssignment" -> parseAssignment(p)
      [] method = "parseUnary" -> parseUnary(p)
      [] method = "parsePower" -> parsePower(p)
      [] method = "parsePrimary" -> parsePrimary(p)
      [] method = "parseParameter" -> parseParameter(p)

\* one iteration of the while loop of parseProgram: the state and the
\* statement list after it
parseProgramStep(p0, list) ==
    LET after(stmt) ==
            LET p == IF stmt.p.thrown THEN synchronize([stmt.p EXCEPT !.thrown = FALSE])
                     ELSE stmt.p
                next == IF ~stmt.p.thrown /\ stmt.n.type # "null" THEN Append(list, stmt.n)
                        ELSE list
            IN  Ret(IF p.cur = p0.cur THEN markStuck(p) ELSE p, next)
    IN  after(callParser("parseStatement", p0))

RECURSIVE programLoop(_, _)
programLoop(p, list) ==
    IF Parser_isAtEnd(p) \/ p.stuck THEN Ret(p, list)
    ELSE LET next(r) == IF r.p.stuck THEN r ELSE programLoop(r.p, r.n)
         IN  next(parseProgramStep(p, list))

parseProgram(p0) ==
    LET program(r) == Ret(r.p, createNode(r.p, "PROGRAM", r.n, ValUndef))
    IN  program(programLoop(p0, <<>>))

createEmptyProgram(p) == createNode(p, "PROGRAM", <<>>, ValUndef)

\* Parser.parse: [ast, errors] (p is kept for the marks)
parse ==
    LET return(r) ==
            [ast |-> IF r.p.thrown THEN createEmptyProgram(r.p) ELSE r.n,
             errors |-> r.p.errs, p |-> r.p]
    IN  return(parseProgram(Parser_reset))

-----------------------------------------------------------------------------
(* The semantic analyzer (class SemanticAnalyzer).  Its state is passed      *)
(* along as a record; a visit gives the state after it and the type it       *)
(* returns.  The values of enum PineType are their strings.                   *)

Visit(a, t) == [a |-> a, t |-> t]

Sem_addError(a, node, code, message) ==
    [a EXCEPT !.errors = Append(@,
        [type |-> "semantic", severity |-> "error", message |-> message,
         location |-> node.location, code |-> ToString(code)])]

\* "this.scopeStack[this.scopeStack.length - 1] ?? 'global'"
topScope(a) ==
    IF Len(a.scopeStack) > 0 THEN a.scopeStack[Len(a.scopeStack)] ELSE "global"

pineTypeToString(type) == type

PineTypes ==
    {"int", "float", "bool", "string", "color", "series<int>", "series<float>",
     "series<bool>", "series<string>", "series<color>", "array", "matrix", "map",
     "void", "na"}

\* the key upper-cased with "<" replaced by "_" and ">" dropped names the
\* member whose value is the string itself; any other string gives void
stringToPineType(type) == IF type \in PineTypes THEN type ELSE "void"

enterScope(a, scopeName) ==
    IF scopeName = "global"
    THEN [a EXCEPT !.scopeStack = IF Len(@) = 0 THEN <<"global">> ELSE @,
                   !.currentScope = "global",
                   !.scopes = IF "global" \in DOMAIN @ THEN @
                              ELSE ("global" :> {}) @@ @]
    ELSE LET fullScopeName == topScope(a) \o "/" \o scopeName
         IN  [a EXCEPT !.scopeStack = Append(@, fullScopeName),
                       !.currentScope = fullScopeName,
                       !.scopes = IF fullScopeName \in DOMAIN @ THEN @
                                  ELSE (fullScopeName :> {}) @@ @]

exitScope(a) ==
    LET stack == IF Len(a.scopeStack) > 1
                 THEN SubSeq(a.scopeStack, 1, Len(a.scopeStack) - 1)
                 ELSE a.scopeStack
    IN  [a EXCEPT !.scopeStack = stack,
                  !.currentScope = IF Len(stack) > 0 THEN stack[Len(stack)]
                                   ELSE "global"]

\* parameters is <<>> where the code leaves the field out
addSymbol(a, name, type, location, isFunction, parameters) ==
    LET scope == topScope(a)
        symbol == [name |-> name, type |-> pineTypeToString(type),
                   location |-> location, scope |-> scope,
                   isFunction |-> isFunction, parameters |-> parameters]
        key == scope \o ":" \o name
    IN  [a EXCEPT !.symbols = (key :> symbol) @@ @,
                  !.scopes = (scope :> ((IF scope \in DOMAIN @ THEN @[scope] ELSE {})
                                        \cup {name})) @@ @]

\* the loop of getSymbol from the scope at index i down; <<>> is undefined
RECURSIVE getSymbolFrom(_, _, _)
getSymbolFrom(a, name, i) ==
    IF i < 1 THEN <<>>
    ELSE IF (a.scopeStack[i] \o ":" \o name) \in DOMAIN a.symbols
    THEN <<a.symbols[a.scopeStack[i] \o ":" \o name]>>
    ELSE getSymbolFrom(a, name, i - 1)

getSymbol(a, name) == getSymbolFrom(a, name, Len(a.scopeStack))

isSymbolInCurrentScope(a, name) == (topScope(a) \o ":" \o name) \in DOMAIN a.symbols

isNumericType(type) == type \in {"int", "float", "series<int>", "series<float>"}

isBooleanType(type) == type \in {"bool", "series<bool>"}

isSeriesType(type) ==
    type \in {"series<int>", "series<float>", "series<bool>", "series<string>",
              "series<color>"}

areTypesCompatible(type1, type2) ==
    \/ type1 = type2
    \/ /\ type1 \in {"int", "float", "series<int>", "series<float>"}
       /\ type2 \in {"int", "float", "series<int>", "series<float>"}

getResultType(type1, type2) ==
    IF type1 = type2 THEN type1
    ELSE IF isNumericType(type1) /\ isNumericType(type2)
    THEN IF type1 = "float" \/ type2 = "float" THEN "float" ELSE "int"
    ELSE "void"

\* the return types of the builtin functions, by name
initializeBuiltinFunctions ==
    [name \in {"abs", "max", "min", "ta.sma", "ta.ema", "ta.rsi", "ta.bb",
               "ta.crossover", "strategy.entry", "sma", "ema", "rsi", "plot"} |->
        CASE name \in {"abs", "max", "min"} -> "float"
          [] name = "ta.crossover" -> "series<bool>"
          [] name \in {"strategy.entry", "plot"} -> "void"
          [] OTHER -> "series<float>"]

BuiltinLocation == [line |-> 0, column |-> 0, length |-> 0]

BuiltinVariables ==
    <<<<"close", "series<float>">>, <<"open", "series<float>">>,
      <<"high", "series<float>">>, <<"low", "series<float>">>,
      <<"volume", "series<float>">>, <<"time", "series<int>">>,
      <<"bar_index", "series<int>">>, <<"strategy.long", "string">>,
      <<"strategy.short", "string">>, <<"strategy.percent_of_equity", "string">>>>

RECURSIVE addBuiltinVariables(_, _)
addBuiltinVariables(a, i) ==
    IF i > Len(BuiltinVariables) THEN a
    ELSE addBuiltinVariables(
             addSymbol(a, BuiltinVariables[i][1], BuiltinVariables[i][2],
                       BuiltinLocation, FALSE, <<>>), i + 1)

initializeBuiltinVariables(a) == addBuiltinVariables(a, 1)

Sem_reset ==
    initializeBuiltinVariables(
        [errors |-> <<>>, symbols |-> <<>>, scopes |-> ("global" :> {}),
         currentScope |-> "global", scopeStack |-> <<"global">>, scopeCounter |-> 0,
         inLoop |-> FALSE, hasStrategyOrIndicator |-> FALSE, plotCount |-> 0])

\* the fields of the analyzer besides errors, symbolTable.symbols and
\* scopeStack
FieldsOf(a) ==
    [scopes |-> a.scopes, currentScope |-> a.currentScope,
     scopeCounter |-> a.scopeCounter, inLoop |-> a.inLoop,
     hasStrategyOrIndicator |-> a.hasStrategyOrIndicator, plotCount |-> a.plotCount]

validatePineScriptRules(a) ==
    IF ~a.hasStrategyOrIndicator
    THEN Sem_addError(a, [location |-> [line |-> 1, column |-> 1, length |-> 1]],
                      MISSING_STRATEGY_DECLARATION,
                      "Pine Script must contain either strategy() or indicator() declaration")
    ELSE a

RECURSIVE visitNode(_, _), visitAll(_, _), visitProgram(_, _),
          visitStrategyDeclaration(_, _), visitIndicatorDeclaration(_, _),
          visitVariableDeclaration(_, _), visitFunctionDeclaration(_, _),
          visitFunctionCall(_, _), visitPlotStatement(_, _), plotFallback(_, _, _),
          visitIfStatement(_, _), visitForStatement(_, _), visitWhileStatement(_, _),
          visitAssignment(_, _), visitBinaryExpression(_, _),
          visitUnaryExpression(_, _), visitConditionalExpression(_, _),
          visitArrayAccess(_, _), visitMemberAccess(_, _), visitBlock(_, _)

\* "for (const child of nodes) this.visitNode(child)": the state after it
visitAll(a, nodes) ==
    IF nodes = <<>> THEN a
    ELSE LET r == visitNode(a, Head(nodes)) IN visitAll(r.a, Tail(nodes))

visitProgram(a, node) ==
    Visit(exitScope(visitAll(enterScope(a, "global"), node.children)), "void")

visitStrategyDeclaration(a, node) ==
    LET a1 == IF a.hasStrategyOrIndicator
              THEN Sem_addError(a, node, INVALID_FUNCTION_DECLARATION,
                       "Only one strategy() or indicator() declaration is allowed per script")
              ELSE a
    IN  Visit(visitAll([a1 EXCEPT !.hasStrategyOrIndicator = TRUE], node.children),
              "void")

visitIndicatorDeclaration(a, node) ==
    LET a1 == IF a.hasStrategyOrIndicator
              THEN Sem_addError(a, node, INVALID_FUNCTION_DECLARATION,
                       "Only one strategy() or indicator() declaration is allowed per script")
              ELSE a
    IN  Visit(visitAll([a1 EXCEPT !.hasStrategyOrIndicator = TRUE], node.children),
              "void")

visitVariableDeclaration(a, node) ==
    IF Len(node.children) < 1 THEN Visit(a, "void")
    ELSE LET varName == node.children[1].value.s
             a1 == IF isSymbolInCurrentScope(a, varName)
                   THEN Sem_addError(a, node, VARIABLE_REDECLARATION,
                            "Variable '" \o varName
                                \o "' is already declared in this scope")
                   ELSE a
             init == IF Len(node.children) >= 2 THEN visitNode(a1, node.children[2])
                     ELSE Visit(a1, "na")
         IN  Visit(addSymbol(init.a, varName, init.t, node.location, FALSE, <<>>),
                   "void")

isNameParameter(paramNode) ==
    paramNode.type = "IDENTIFIER" /\ paramNode.value.k = "string"

\* the first loop over the parameters: the metadata of the distinct names
RECURSIVE parameterMetadata(_, _)
parameterMetadata(paramNodes, seen) ==
    IF paramNodes = <<>> THEN <<>>
    ELSE LET paramNode == Head(paramNodes)
             paramName == paramNode.value.s
         IN  IF isNameParameter(paramNode) /\ paramName \notin seen
             THEN <<[name |-> paramName, type |-> "na", optional |-> FALSE]>>
                      \o parameterMetadata(Tail(paramNodes), seen \cup {paramName})
             ELSE parameterMetadata(Tail(paramNodes), seen)

\* the second loop: the parameters registered in the scope of the function
RECURSIVE registerParameters(_, _, _)
registerParameters(a, paramNodes, seen) ==
    IF paramNodes = <<>> THEN a
    ELSE LET paramNode == Head(paramNodes)
             paramName == paramNode.value.s
         IN  IF ~isNameParameter(paramNode)
             THEN registerParameters(
                      Sem_addError(a, paramNode, INVALID_FUNCTION_DECLARATION,
                                   "Invalid function parameter"),
                      Tail(paramNodes), seen)
             ELSE IF paramName \in seen
             THEN registerParameters(
                      Sem_addError(a, paramNode, VARIABLE_REDECLARATION,
                                   "Parameter '" \o paramName \o "' is already declared"),
                      Tail(paramNodes), seen)
             ELSE registerParameters(
                      addSymbol(a, paramName, "na", paramNode.location, FALSE, <<>>),
                      Tail(paramNodes), seen \cup {paramName})

\* children are the name, the parameters and the body: the body is the last
\* child unless the name is the only one
visitFunctionDeclaration(a, node) ==
    LET count == Len(node.children)
        bodyIndex == IF count - 1 > 1 THEN count - 1 ELSE 1
        paramNodes == SubSeq(node.children, 2, bodyIndex)
        functionName == IF count >= 1 /\ node.children[1].value.k = "string"
                        THEN node.children[1].value.s ELSE ""
        a1 == IF isSymbolInCurrentScope(a, functionName)
              THEN Sem_addError(a, node, VARIABLE_REDECLARATION,
                                "Function '" \o functionName \o "' is already declared")
              ELSE a
        a2 == addSymbol(a1, functionName, "void", node.children[1].location, TRUE,
                        parameterMetadata(paramNodes, {}))
        a3 == registerParameters(enterScope(a2, "function_" \o functionName),
                                 paramNodes, {})
        a4 == IF bodyIndex + 1 <= count THEN visitNode(a3, node.children[bodyIndex + 1]).a
              ELSE a3
    IN  IF functionName = ""
        THEN Visit(Sem_addError(a, node, INVALID_FUNCTION_DECLARATION,
                                "Function declaration must have a name"), "void")
        ELSE Visit(exitScope(a4), "void")

visitFunctionCall(a, node) ==
    IF Len(node.children) < 1 THEN Visit(a, "void")
    ELSE
    LET callee == node.children[1]
        args == Tail(node.children)
        isName == callee.type = "IDENTIFIER"
        isMember == /\ callee.type = "MEMBER_EXPRESSION"
                    /\ Len(callee.children) >= 2
                    /\ callee.children[1].type = "IDENTIFIER"
                    /\ callee.children[2].type = "IDENTIFIER"
        functionName == IF isName THEN callee.value.s
                        ELSE callee.children[1].value.s \o "."
                                 \o callee.children[2].value.s
        isBuiltin == functionName \in DOMAIN initializeBuiltinFunctions
        userFunction == getSymbol(a, functionName)
    IN  IF ~isName /\ ~isMember THEN Visit(visitNode(a, callee).a, "void")
        ELSE IF ~isBuiltin /\ userFunction = <<>>
        THEN Visit(Sem_addError(a, node, UNDEFINED_VARIABLE,
                                "Undefined function '" \o functionName \o "'"), "void")
        ELSE Visit(visitAll(a, args),
                   IF isBuiltin THEN initializeBuiltinFunctions[functionName]
                   ELSE "void")

\* the fallback loop of visitPlotStatement over the children from index i
plotFallback(a, node, i) ==
    IF i > Len(node.children) THEN a
    ELSE LET r == visitNode(a, node.children[i])
             a1 == IF i = 1 /\ ~isNumericType(r.t) /\ ~isSeriesType(r.t)
                   THEN Sem_addError(r.a, node.children[i], TYPE_MISMATCH,
                            "plot() first argument must be a numeric or series value")
                   ELSE r.a
         IN  plotFallback(a1, node, i + 1)

visitPlotStatement(a, node) ==
    LET a1 == IF a.inLoop
              THEN Sem_addError(a, node, PLOT_IN_LOOP,
                                "plot() calls are not allowed inside loops")
              ELSE a
        a2 == [a1 EXCEPT !.plotCount = @ + 1]
    IN  IF Len(node.children) >= 1 /\ node.children[1].type = "CALL_EXPRESSION"
        THEN visitFunctionCall(a2, node.children[1])
        ELSE Visit(plotFallback(a2, node, 1), "void")

visitIfStatement(a, node) ==
    IF Len(node.children) < 2 THEN Visit(a, "void")
    ELSE LET condition == node.children[1]
             c == visitNode(a, condition)
             a1 == IF ~isBooleanType(c.t)
                   THEN Sem_addError(c.a, condition, TYPE_MISMATCH,
                                     "if condition must be a boolean expression")
                   ELSE c.a
             a2 == visitNode(a1, node.children[2]).a
         IN  Visit(IF Len(node.children) >= 3 THEN visitNode(a2, node.children[3]).a
                   ELSE a2, "void")

visitForStatement(a, node) ==
    IF Len(node.children) < 3 THEN Visit(a, "void")
    ELSE
    LET count == Len(node.children)
        variable == node.children[1]
        start == node.children[2]
        end == node.children[3]
        a1 == [enterScope(a, "for_" \o ToString(a.scopeCounter))
                  EXCEPT !.scopeCounter = @ + 1, !.inLoop = TRUE]
        a2 == addSymbol(a1, variable.value.s, "int", variable.location, FALSE, <<>>)
        s == visitNode(a2, start)
        e == visitNode(s.a, end)
        a3 == IF ~isNumericType(s.t)
              THEN Sem_addError(e.a, start, TYPE_MISMATCH,
                                "for loop start value must be numeric")
              ELSE e.a
        a4 == IF ~isNumericType(e.t)
              THEN Sem_addError(a3, end, TYPE_MISMATCH,
                                "for loop end value must be numeric")
              ELSE a3
        st == visitNode(a4, node.children[4])
        a5 == IF count <= 4 THEN a4
              ELSE IF ~isNumericType(st.t)
              THEN Sem_addError(st.a, node.children[4], TYPE_MISMATCH,
                                "for loop step value must be numeric")
              ELSE st.a
        a6 == visitNode(a5, node.children[count]).a
    IN  Visit(exitScope([a6 EXCEPT !.inLoop = a.inLoop]), "void")

\* visitWhileStatement with inLoop cleared, not restored, after the body
visitWhileStatement_clearsInLoop(a, node) ==
    IF Len(node.children) < 2 THEN Visit(a, "void")
    ELSE
    LET condition == node.children[1]
        c == visitNode(a, condition)
        a1 == IF ~isBooleanType(c.t)
              THEN Sem_addError(c.a, condition, TYPE_MISMATCH,
                                "while condition must be a boolean expression")
              ELSE c.a
        a2 == [enterScope(a1, "while_" \o ToString(a1.scopeCounter))
                  EXCEPT !.scopeCounter = @ + 1, !.inLoop = TRUE]
        a3 == visitNode(a2, node.children[2]).a
    IN  Visit(exitScope([a3 EXCEPT !.inLoop = FALSE]), "void")

visitWhileStatement(a, node) ==
    IF Len(node.children) < 2 THEN Visit(a, "void")
    ELSE
    LET condition == node.children[1]
        c == visitNode(a, condition)
        a1 == IF ~isBooleanType(c.t)
              THEN Sem_addError(c.a, condition, TYPE_MISMATCH,
                                "while condition must be a boolean expression")
              ELSE c.a
        a2 == [enterScope(a1, "while_" \o ToString(a1.scopeCounter))
                  EXCEPT !.scopeCounter = @ + 1, !.inLoop = TRUE]
        a3 == visitNode(a2, node.children[2]).a
    IN  Visit(exitScope([a3 EXCEPT !.inLoop = a1.inLoop]), "void")

visitAssignment(a, node) ==
    IF Len(node.children) < 2 THEN Visit(a, "void")
    ELSE
    LET left == node.children[1]
        r == visitNode(a, node.children[2])
        symbol == getSymbol(r.a, left.value.s)
    IN  IF left.type # "IDENTIFIER" THEN Visit(visitNode(r.a, left).a, r.t)
        ELSE IF symbol = <<>>
        THEN Visit(Sem_addError(r.a, left, UNDEFINED_VARIABLE,
                                "Undefined variable '" \o left.value.s \o "'"), r.t)
        ELSE IF ~areTypesCompatible(symbol[1].type, pineTypeToString(r.t))
        THEN Visit(Sem_addError(r.a, node, TYPE_MISMATCH,
                                "Cannot assign " \o pineTypeToString(r.t) \o " to "
                                    \o symbol[1].type), r.t)
        ELSE r

\* "node.value as string" where a switch compares it with operator texts
operatorOf(node) == IF node.value.k = "string" THEN node.value.s ELSE "undefined"

visitBinaryExpression(a, node) ==
    IF Len(node.children) < 2 THEN Visit(a, "void")
    ELSE
    LET operator == operatorOf(node)
        l == visitNode(a, node.children[1])
        r == visitNode(l.a, node.children[2])
    IN  CASE operator \in {"+", "-", "*", "/", "%", "^"} ->
                Visit(IF ~isNumericType(l.t) \/ ~isNumericType(r.t)
                      THEN Sem_addError(r.a, node, TYPE_MISMATCH,
                               "Arithmetic operator '" \o operator
                                   \o "' requires numeric operands")
                      ELSE r.a,
                      getResultType(l.t, r.t))
          [] operator \in {"==", "!=", "<", "<=", ">", ">="} ->
                Visit(IF ~areTypesCompatible(pineTypeToString(l.t),
                                             pineTypeToString(r.t))
                      THEN Sem_addError(r.a, node, TYPE_MISMATCH,
                               "Comparison operator '" \o operator
                                   \o "' requires compatible operands")
                      ELSE r.a,
                      "bool")
          [] operator \in {"and", "or"} ->
                Visit(IF ~isBooleanType(l.t) \/ ~isBooleanType(r.t)
                      THEN Sem_addError(r.a, node, TYPE_MISMATCH,
                               "Logical operator '" \o operator
                                   \o "' requires boolean operands")
                      ELSE r.a,
                      "bool")
          [] OTHER -> Visit(r.a, "void")

visitUnaryExpression(a, node) ==
    IF Len(node.children) < 1 THEN Visit(a, "void")
    ELSE
    LET operator == operatorOf(node)
        r == visitNode(a, node.children[1])
    IN  CASE operator \in {"-", "+"} ->
                Visit(IF ~isNumericType(r.t)
                      THEN Sem_addError(r.a, node, TYPE_MISMATCH,
                               "Unary operator '" \o operator
                                   \o "' requires numeric operand")
                      ELSE r.a,
                      r.t)
          [] operator = "not" ->
                Visit(IF ~isBooleanType(r.t)
                      THEN Sem_addError(r.a, node, TYPE_MISMATCH,
                               "Unary operator 'not' requires boolean operand")
                      ELSE r.a,
                      "bool")
          [] OTHER -> Visit(r.a, "void")

visitConditionalExpression(a, node) ==
    IF Len(node.children) < 3 THEN Visit(a, "void")
    ELSE
    LET condition == node.children[1]
        c == visitNode(a, condition)
        t == visitNode(c.a, node.children[2])
        e == visitNode(t.a, node.children[3])
        a1 == IF ~isBooleanType(c.t)
              THEN Sem_addError(e.a, condition, TYPE_MISMATCH,
                                "Conditional expression condition must be boolean")
              ELSE e.a
        a2 == IF ~areTypesCompatible(pineTypeToString(t.t), pineTypeToString(e.t))
              THEN Sem_addError(a1, node, TYPE_MISMATCH,
                       "Conditional expression branches must have compatible types")
              ELSE a1
    IN  Visit(a2, getResultType(t.t, e.t))

visitIdentifier(a, node) ==
    LET symbol == getSymbol(a, node.value.s)
    IN  IF symbol = <<>>
        THEN Visit(Sem_addError(a, node, UNDEFINED_VARIABLE,
                                "Undefined variable '" \o node.value.s \o "'"), "void")
        ELSE Visit(a, stringToPineType(symbol[1].type))

visitLiteral(a, node) ==
    Visit(a, CASE node.value.k = "number" -> IF node.value.int THEN "int" ELSE "float"
               [] node.value.k = "boolean" -> "bool"
               [] node.value.k = "string" -> "string"
               [] node.value.k = "null" -> "na"
               [] OTHER -> "void")

visitArrayAccess(a, node) ==
    LET a1 == IF Len(node.children) >= 1 THEN visitNode(a, node.children[1]).a ELSE a
        index == visitNode(a1, node.children[2])
    IN  Visit(IF Len(node.children) < 2 THEN a1
              ELSE IF ~isNumericType(index.t)
              THEN Sem_addError(index.a, node.children[2], TYPE_MISMATCH,
                                "Array index must be numeric")
              ELSE index.a,
              "float")

visitMemberAccess(a, node) ==
    LET a1 == IF Len(node.children) >= 1 THEN visitNode(a, node.children[1]).a ELSE a
    IN  Visit(IF Len(node.children) >= 2 THEN visitNode(a1, node.children[2]).a ELSE a1,
              "float")

visitBlock(a, node) == Visit(visitAll(a, node.children), "void")

visitNode(a, node) ==
    CASE node.type = "PROGRAM" -> visitProgram(a, node)
      [] node.type = "STRATEGY_DECLARATION" -> visitStrategyDeclaration(a, node)
      [] node.type = "INDICATOR_DECLARATION" -> visitIndicatorDeclaration(a, node)
      [] node.type = "VARIABLE_DECLARATION" -> visitVariableDeclaration(a, node)
      [] node.type = "FUNCTION_DECLARATION" -> visitFunctionDeclaration(a, node)
      [] node.type = "FUNCTION_CALL" -> visitFunctionCall(a, node)
      [] node.type = "CALL_EXPRESSION" -> visitFunctionCall(a, node)
      [] node.type = "PLOT_STATEMENT" -> visitPlotStatement(a, node)
      [] node.type = "IF_STATEMENT" -> visitIfStatement(a, node)
      [] node.type = "FOR_STATEMENT" -> visitForStatement(a, node)
      [] node.type = "WHILE_STATEMENT" -> visitWhileStatement(a, node)
      [] node.type = "ASSIGNMENT" -> visitAssignment(a, node)
      [] node.type = "BINARY_EXPRESSION" -> visitBinaryExpression(a, node)
      [] node.type = "UNARY_EXPRESSION" -> visitUnaryExpression(a, node)
      [] node.type = "CONDITIONAL_EXPRESSION" -> visitConditionalExpression(a, node)
      [] node.type = "IDENTIFIER" -> visitIdentifier(a, node)
      [] node.type = "LITERAL" -> visitLiteral(a, node)
      [] node.type = "ARRAY_ACCESS" -> visitArrayAccess(a, node)
      [] node.type = "MEMBER_ACCESS" -> visitMemberAccess(a, node)
      [] node.type = "BLOCK" -> visitBlock(a, node)
      [] OTHER -> Visit(a, "void")

\* SemanticAnalyzer.analyze: the state it ends in holds the symbol table and
\* the errors it returns
analyze(root) == validatePineScriptRules(visitNode(Sem_reset, root).a)

-----------------------------------------------------------------------------
(* Values of the fields a run has not set yet *)

NoNode == [type |-> "none"]

NoResult == [returned |-> FALSE]

\* all sequences over S of length at most n
SeqsUpTo(S, n) == UNION {[1..k -> S] : k \in 0..n}

-----------------------------------------------------------------------------
(* SpecLex: one tokenize run, a scanToken call per step, on every short text *)

MaxIndentLen == 8
MaxLen == 3

IndentChars == {" ", "\n", "a"}

LexChars == {"a", " ", "\n", "\t", "\r", "\"", "/", "*", "!", "1", ".", "e", "+",
             "\\", "@"}

MaxCommentLen == 5

CommentChars == {"/", "*", "a"}

LexSources ==
    SeqsUpTo(IndentChars, MaxIndentLen) \cup SeqsUpTo(LexChars, MaxLen)
        \cup SeqsUpTo(CommentChars, MaxCommentLen)

InitIdle ==
    /\ current = 0 /\ parseErrors = <<>> /\ statements = <<>> /\ ast = NoNode
    /\ semErrors = <<>> /\ symbolTable = <<>> /\ scopeStack = <<"global">>
    /\ semFields = FieldsOf(Sem_reset)
    /\ allErrors = <<>> /\ result = NoResult /\ invoked = <<>>

InitLexer ==
    /\ position = Lexer_reset.position /\ line = Lexer_reset.line
    /\ column = Lexer_reset.column /\ tokens = Lexer_reset.tokens
    /\ lexErrors = Lexer_reset.errors /\ indentStack = Lexer_reset.indentStack
    /\ atLineStart = Lexer_reset.atLineStart
    /\ scanSteps = 0

InitLex ==
    /\ source \in LexSources
    /\ InitLexer
    /\ InitIdle
    /\ pc = "scan"

SetLexer(s) ==
    /\ position' = s.position /\ line' = s.line /\ column' = s.column
    /\ tokens' = s.tokens /\ lexErrors' = s.errors
    /\ indentStack' = s.indentStack /\ atLineStart' = s.atLineStart

\* one iteration of "while (!this.isAtEnd()) this.scanToken()"
\* scanSteps is capped: a scan that has taken more steps than the text has
\* characters has stopped consuming, and stays where it is
ScanToken ==
    /\ pc = "scan"
    /\ ~Lexer_isAtEnd(LexState)
    /\ scanSteps <= Len(source)
    /\ SetLexer(scanToken(LexState))
    /\ scanSteps' = scanSteps + 1
    /\ UNCHANGED <<source, parVars, semVars, compVars, pc>>

\* the rest of tokenize, once the loop has ended
FinishTokenize ==
    /\ pc = "scan"
    /\ Lexer_isAtEnd(LexState)
    /\ SetLexer(finishTokenize(LexState))
    /\ pc' = "lexed"
    /\ UNCHANGED <<source, parVars, semVars, compVars, scanSteps>>

NextLex == ScanToken \/ FinishTokenize

SpecLex == InitLex /\ [][NextLex]_vars

-----------------------------------------------------------------------------
(* The parser alone, over token sequences that end with EOF *)

MaxTokens == 3

MaxBlockTokens == 5

\* a token of each kind: <<type, text>>
TokenKinds ==
    {<<"IDENTIFIER", <<"a">>>>, <<"IDENTIFIER", <<"i", "n", "t">>>>,
     <<"NUMBER", <<"1">>>>, <<"STRING", <<"s">>>>, <<"TRUE", <<"t", "r", "u", "e">>>>,
     <<"NEWLINE", <<"\n">>>>, <<"INDENT", <<" ">>>>, <<"DEDENT", <<>>>>,
     <<"COMMENT", <<"/", "/">>>>, <<"IF", <<"i", "f">>>>,
     <<"ELSE", <<"e", "l", "s", "e">>>>, <<"FOR", <<"f", "o", "r">>>>,
     <<"WHILE", <<"w", "h", "i", "l", "e">>>>, <<"VAR", <<"v", "a", "r">>>>,
     <<"PLOT", <<"p", "l", "o", "t">>>>,
     <<"INDICATOR", <<"i", "n", "d", "i", "c", "a", "t", "o", "r">>>>,
     <<"LEFT_PAREN", <<"(">>>>, <<"RIGHT_PAREN", <<")">>>>, <<"LBRACKET", <<"[">>>>,
     <<"RBRACKET", <<"]">>>>, <<"COMMA", <<",">>>>, <<"DOT", <<".">>>>,
     <<"EQUAL", <<"=">>>>, <<"ARROW", <<"=", ">">>>>, <<"PLUS", <<"+">>>>,
     <<"NOT", <<"n", "o", "t">>>>, <<"QUESTION", <<"?">>>>, <<"COLON", <<":">>>>,
     <<"TO", <<"t", "o">>>>}

BlockKinds ==
    {<<"IDENTIFIER", <<"a">>>>, <<"NEWLINE", <<"\n">>>>, <<"INDENT", <<" ">>>>,
     <<"DEDENT", <<>>>>, <<"WHILE", <<"w", "h", "i", "l", "e">>>>, <<"IF", <<"i", "f">>>>,
     <<"RIGHT_PAREN", <<")">>>>}

\* the tokens of the kinds, in one line, with an EOF token after them
TokensOf(kinds) ==
    [i \in 1..(Len(kinds) + 1) |->
        IF i <= Len(kinds)
        THEN [type |-> kinds[i][1], value |-> kinds[i][2], line |-> 1, column |-> i,
              position |-> i - 1]
        ELSE [type |-> "EOF", value |-> <<>>, line |-> 1, column |-> i,
              position |-> i - 1]]

\* the tokens of the binary operators: <<type, text>>
BinaryOperators ==
    {<<"OR", <<"o", "r">>>>, <<"AND", <<"a", "n", "d">>>>, <<"EQ", <<"=", "=">>>>,
     <<"NE", <<"!", "=">>>>, <<"GT", <<">">>>>, <<"GE", <<">", "=">>>>,
     <<"LT", <<"<">>>>, <<"LE", <<"<", "=">>>>, <<"PLUS", <<"+">>>>,
     <<"MINUS", <<"-">>>>, <<"MULTIPLY", <<"*">>>>, <<"DIVIDE", <<"/">>>>,
     <<"MODULO", <<"%">>>>}

\* a op1 b op2 c
Expressions ==
    {<<<<"IDENTIFIER", <<"a">>>>, op1, <<"IDENTIFIER", <<"b">>>>, op2,
       <<"IDENTIFIER", <<"c">>>>>> : op1 \in BinaryOperators, op2 \in BinaryOperators}

ParseInputs ==
    {TokensOf(kinds) : kinds \in SeqsUpTo(TokenKinds, MaxTokens)
                                 \cup SeqsUpTo(BlockKinds, MaxBlockTokens)
                                 \cup Expressions}

ParserState == [cur |-> current, errs |-> parseErrors, thrown |-> FALSE, stuck |-> FALSE]

InitParse ==
    /\ source = <<>>
    /\ position = 0 /\ line = 1 /\ column = 1 /\ lexErrors = <<>>
    /\ indentStack = <<0>> /\ atLineStart = TRUE /\ scanSteps = 0
    /\ tokens \in ParseInputs
    /\ InitIdle
    /\ pc = "parse"

\* one iteration of the while loop of parseProgram; pc = "spin" when a loop
\* went through an iteration that consumed nothing
ParseStatement ==
    /\ pc = "parse"
    /\ ~Parser_isAtEnd(ParserState)
    /\ LET step(r) ==
               /\ current' = r.p.cur
               /\ parseErrors' = r.p.errs
               /\ statements' = r.n
               /\ pc' = IF r.p.stuck THEN "spin" ELSE "parse"
       IN  step(parseProgramStep(ParserState, statements))
    /\ UNCHANGED <<source, lexVars, ast, semVars, compVars, scanSteps>>

\* the end of parseProgram and the return of parse
FinishParse ==
    /\ pc = "parse"
    /\ Parser_isAtEnd(ParserState)
    /\ ast' = createNode(ParserState, "PROGRAM", statements, ValUndef)
    /\ pc' = "parsed"
    /\ UNCHANGED <<source, lexVars, current, parseErrors, statements, semVars,
                   compVars, scanSteps>>

NextParse == ParseStatement \/ FinishParse

SpecParse == InitParse /\ [][NextParse]_vars

-----------------------------------------------------------------------------
(* PineScriptCompiler.compileSource *)

\* treats the third lexical code as fatal too
isCriticalErrorCode_withInvalidNumber(code) == code \in {"1001", "1002", "1003"}

isCriticalErrorCode(code) == code \in {"1001", "1002"}

hasCriticalErrors(errors) ==
    \E i \in 1..Len(errors) :
        errors[i].severity = "error" /\ isCriticalErrorCode(errors[i].code)

\* "errors.filter(error => error.severity === severity)"
withSeverity(errors, severity) == SelectSeq(errors, LAMBDA e : e.severity = severity)

\* compileSource never passes the optional ast
createFailureResult(errors) ==
    [returned |-> TRUE, success |-> FALSE,
     errors |-> withSeverity(errors, "error"),
     warnings |-> withSeverity(errors, "warning"), ast |-> NoNode]

\* reports success whatever the errors are
createResult_alwaysSuccess(errors, root) ==
    [returned |-> TRUE, success |-> TRUE,
     errors |-> withSeverity(errors, "error"),
     warnings |-> withSeverity(errors, "warning"), ast |-> root]

\* the return at the end of the try block
createResult(errors, root) ==
    [returned |-> TRUE, success |-> Len(withSeverity(errors, "error")) = 0,
     errors |-> withSeverity(errors, "error"),
     warnings |-> withSeverity(errors, "warning"), ast |-> root]

\* the catch block, entered with the errors pushed so far
catchResult(errors, message) ==
    createFailureResult(Append(errors,
        [type |-> "lexical", severity |-> "error",
         message |-> "Compilation failed: " \o message,
         location |-> [line |-> 1, column |-> 1, length |-> 1], code |-> "9999"]))

-----------------------------------------------------------------------------
(* Spec: compileSource on the programs of up to MaxLines lines, each one of   *)
(* ProgramLines at an indentation of IndentWidths, the first line at 0, and  *)
(* on the programs of Scenarios                                               *)

MaxLines == 3

ProgramLines ==
    <<"plot(close)", "var x = 1", "indicator(\"a\")", "strategy(\"s\")", "if 5",
      "if true", "while 5", "while true", "for i = 0 to 10", "x = 5 ? 1 : 2",
      "f() =>", "\"abc", "1e+", "@", "y.z", "g(y)", "close(1)">>

IndentWidths == {0, 4}

\* the characters of a string
Chars(str) == [i \in 1..Len(str) |-> SubSeq(str, i, i)]

LineChoices == IndentWidths \X (1..Len(ProgramLines))

Programs == {p \in SeqsUpTo(LineChoices, MaxLines) : p # <<>> => p[1][1] = 0}

RECURSIVE SourceOf(_)
SourceOf(p) ==
    IF p = <<>> THEN <<>>
    ELSE Spaces(p[1][1]) \o Chars(ProgramLines[p[1][2]])
             \o (IF Len(p) > 1 THEN <<"\n">> \o SourceOf(Tail(p)) ELSE <<>>)

\* programs beyond those lines
Scenarios ==
    {"plot(y)", "var x = y", "while true\n    x = 1\n  x = 2",
     "while true\n    while true\n        x = 1\n    plot(close)",
     "f(c ? a : b, d)",
     "[c ? a : b, d]",
     "float a = 0.0, b = 1.0",
     "f() =>\n    var x = 1\nf() =>\n    var x = 1",
     "var x = close + 1",
     "var x = 1.5 + 1",
     "var x = close + close",
     "var x = 1.5 + 1.5",
     "var x = time + 1",
     "while true\n    var x = 1\nplot(x)",
     "for i = 0 to 10\n    var x = 1\nplot(i)",
     "f(a) => a\nplot(a)",
     "while true\n    var x = 1\nif true\n    plot(x)",
     "if true\n    plot(y)",
     "if true\n    while true\n        plot(close)",
     "indicator(\"x\", overlay=true)\nplot(close)",
     "indicator(\"x\")\nplot(close, title=\"t\")",
     "indicator(\"x\")\nplot(close, time=\"t\")"}

Sources == {SourceOf(p) : p \in Programs} \cup {Chars(text) : text \in Scenarios}

Init ==
    /\ source \in Sources
    /\ InitLexer
    /\ InitIdle
    /\ pc = "compile"

\* "new Lexer(source).tokenize()" and the push of its errors
Tokenize ==
    /\ pc = "compile"
    /\ LET return(s) ==
               /\ SetLexer(s)
               /\ allErrors' = allErrors \o s.errors
       IN  return(tokenize)
    /\ invoked' = Append(invoked, "tokenize")
    /\ pc' = "tokenized"
    /\ UNCHANGED <<source, parVars, semVars, result, scanSteps>>

\* the return after the lexical analysis
HaltLexical ==
    /\ pc = "tokenized"
    /\ hasCriticalErrors(lexErrors)
    /\ result' = createFailureResult(allErrors)
    /\ pc' = "done"
    /\ UNCHANGED <<source, lexVars, parVars, semVars, allErrors, invoked, scanSteps>>

\* "new Parser(tokens).parse()", the push of its errors and the return after
\* the syntax analysis
Parse ==
    /\ pc = "tokenized"
    /\ ~hasCriticalErrors(lexErrors)
    /\ LET return(r) ==
               LET halt == r.ast.type # "PROGRAM" \/ hasCriticalErrors(r.errors)
               IN  /\ current' = r.p.cur
                   /\ parseErrors' = r.errors
                   /\ statements' = r.ast.children
                   /\ ast' = r.ast
                   /\ allErrors' = allErrors \o r.errors
                   /\ result' = IF halt THEN createFailureResult(allErrors \o r.errors)
                                ELSE result
                   /\ pc' = IF halt THEN "done" ELSE "parsed"
       IN  return(parse)
    /\ invoked' = Append(invoked, "parse")
    /\ UNCHANGED <<source, lexVars, semVars, scanSteps>>

\* "new SemanticAnalyzer().analyze(ast)", the push of its errors and the
\* return of the result
Analyze ==
    /\ pc = "parsed"
    /\ LET return(a) ==
               /\ semErrors' = a.errors
               /\ symbolTable' = a.symbols
               /\ scopeStack' = a.scopeStack
               /\ semFields' = FieldsOf(a)
               /\ allErrors' = allErrors \o a.errors
               /\ result' = createResult(allErrors \o a.errors, ast)
       IN  return(analyze(ast))
    /\ invoked' = Append(invoked, "analyze")
    /\ pc' = "done"
    /\ UNCHANGED <<source, lexVars, parVars, scanSteps>>

Next == Tokenize \/ HaltLexical \/ Parse \/ Analyze

Spec == Init /\ [][Next]_vars

-----------------------------------------------------------------------------
(* Counting *)

CountType(toks, type) == Cardinality({i \in 1..Len(toks) : toks[i].type = type})

HasCode(errors, code) == \E i \in 1..Len(errors) : errors[i].code = ToString(code)

-----------------------------------------------------------------------------
(* SpecRerun: a Lexer, then a Parser made from the tokens it returned last, *)
(* then a SemanticAnalyzer, each called several times                        *)

MaxCalls == 3

RerunTexts ==
    {"plot(close)", "indicator(\"a\")\nplot(close)", "while true\n    plot(y)",
     "\"abc", "1e+", "var x = 1\nvar x = 1", "if 5\n    @"}

RerunSources == {Chars(text) : text \in RerunTexts}

\* Lexer.reset in state s
resetLexer(s) ==
    [s EXCEPT !.position = 0, !.line = 1, !.column = 1, !.indentStack = <<0>>,
              !.tokens = <<>>, !.errors = <<>>, !.atLineStart = TRUE]

\* Lexer.tokenize on an instance in state s, after the assignments for a
\* source given: reset, the scan loop and what follows it
tokenizeAgain(s) == finishTokenize(scanLoop(resetLexer(s)))

\* reset without the assignment of the errors
resetParser_keepsErrors(p) == [p EXCEPT !.cur = 0]

\* Parser.reset in state p
resetParser(p) == [p EXCEPT !.cur = 0, !.errs = <<>>]

\* Parser.parse on an instance in state p
parseAgain(p) ==
    LET return(r) ==
            [ast |-> IF r.p.thrown THEN createEmptyProgram(r.p) ELSE r.n,
             errors |-> r.p.errs, p |-> r.p]
    IN  return(parseProgram(resetParser(p)))

\* SemanticAnalyzer.reset in state a
resetAnalyzer(a) ==
    initializeBuiltinVariables(
        [a EXCEPT !.symbols = <<>>, !.scopes = ("global" :> {}),
                  !.scopeStack = <<"global">>, !.errors = <<>>,
                  !.currentScope = "global", !.scopeCounter = 0, !.inLoop = FALSE,
                  !.hasStrategyOrIndicator = FALSE, !.plotCount = 0])

\* SemanticAnalyzer.analyze on an instance in state a
analyzeAgain(a, root) == validatePineScriptRules(visitNode(resetAnalyzer(a), root).a)

AnalyzerState ==
    [errors |-> semErrors, symbols |-> symbolTable, scopes |-> semFields.scopes,
     currentScope |-> semFields.currentScope, scopeStack |-> scopeStack,
     scopeCounter |-> semFields.scopeCounter, inLoop |-> semFields.inLoop,
     hasStrategyOrIndicator |-> semFields.hasStrategyOrIndicator,
     plotCount |-> semFields.plotCount]

SetAnalyzer(a) ==
    /\ semErrors' = a.errors
    /\ symbolTable' = a.symbols
    /\ scopeStack' = a.scopeStack
    /\ semFields' = FieldsOf(a)

\* the calls of the method among the calls made
CallsOf(method) == SelectSeq(invoked, LAMBDA call : call[1] = method)

\* the trees handed to analyze: the program parsed and each of its statements
Roots ==
    IF ast = NoNode THEN {}
    ELSE {ast} \cup {ast.children[i] : i \in 1..Len(ast.children)}

InitRerun ==
    /\ source \in RerunSources
    /\ InitLexer
    /\ InitIdle
    /\ pc = "new Lexer"

\* lexer.tokenize(text), up to its call of reset: the assignments for the
\* source given
CallTokenize(text) ==
    /\ pc \in {"new Lexer", "tokenize"}
    /\ Len(CallsOf("tokenize")) < MaxCalls
    /\ source' = text
    /\ position' = 0 /\ line' = 1 /\ column' = 1 /\ indentStack' = <<0>>
    /\ invoked' = Append(invoked, <<"tokenize", text>>)
    /\ pc' = "tokenize(source)"
    /\ UNCHANGED <<tokens, lexErrors, atLineStart, parVars, semVars, allErrors,
                   result, scanSteps>>

\* the rest of that call, from its call of reset to its return
RunTokenize ==
    /\ pc = "tokenize(source)"
    /\ LET return(s) == SetLexer(s)
       IN  return(tokenizeAgain(LexState))
    /\ pc' = "tokenize"
    /\ UNCHANGED <<source, parVars, semVars, compVars, scanSteps>>

\* new Parser(tokens) with the tokens returned last
NewParser ==
    /\ pc = "tokenize"
    /\ current' = 0
    /\ parseErrors' = <<>>
    /\ pc' = "new Parser"
    /\ UNCHANGED <<source, lexVars, statements, ast, semVars, compVars, scanSteps>>

\* parser.parse()
CallParse ==
    /\ pc \in {"new Parser", "parse"}
    /\ Len(CallsOf("parse")) < MaxCalls
    /\ LET return(r) ==
               /\ current' = r.p.cur
               /\ parseErrors' = r.errors
               /\ statements' = r.ast.children
               /\ ast' = r.ast
       IN  return(parseAgain(ParserState))
    /\ invoked' = Append(invoked, <<"parse", tokens>>)
    /\ pc' = "parse"
    /\ UNCHANGED <<source, lexVars, semVars, allErrors, result, scanSteps>>

\* new SemanticAnalyzer()
NewAnalyzer ==
    /\ pc = "parse"
    /\ SetAnalyzer(Sem_reset)
    /\ pc' = "new SemanticAnalyzer"
    /\ UNCHANGED <<source, lexVars, parVars, compVars, scanSteps>>

\* analyzer.analyze(root)
CallAnalyze(root) ==
    /\ pc \in {"new SemanticAnalyzer", "analyze"}
    /\ Len(CallsOf("analyze")) < MaxCalls
    /\ SetAnalyzer(analyzeAgain(AnalyzerState, root))
    /\ invoked' = Append(invoked, <<"analyze", root>>)
    /\ pc' = "analyze"
    /\ UNCHANGED <<source, lexVars, parVars, allErrors, result, scanSteps>>

NextRerun ==
    \/ \E text \in RerunSources : CallTokenize(text)
    \/ RunTokenize
    \/ NewParser
    \/ CallParse
    \/ NewAnalyzer
    \/ \E root \in Roots : CallAnalyze(root)

SpecRerun == InitRerun /\ [][NextRerun]_vars

CountCode(errors, code) ==
    Cardinality({i \in 1..Len(errors) : errors[i].code = ToString(code)})

-----------------------------------------------------------------------------
(* Claims about the lexer *)

LastToken == tokens[Len(tokens)]

\* C3: for every source text tokenize terminates: each scan step consumes at
\* least one character, so the steps taken never outnumber the characters
\* consumed and the position never passes the end of the text; and the
\* tokens returned end with an EOF token that is the only EOF token among
\* them.
C3_TokenizeTerminates ==
    /\ [][pc = "scan" /\ pc' = "scan" => position' > position]_vars
    /\ [](scanSteps <= position /\ position <= Len(source))
    /\ [](pc = "lexed" =>
            /\ Len(tokens) >= 1
            /\ LastToken.type = "EOF"
            /\ CountType(tokens, "EOF") = 1)

\* a returned run over a text with an unexpected character and an
\* unterminated string, after at least two scan steps
C3_Witness ==
    /\ pc = "lexed"
    /\ scanSteps >= 2
    /\ HasCode(lexErrors, INVALID_CHARACTER)
    /\ HasCode(lexErrors, UNTERMINATED_STRING)
    /\ LastToken.type = "EOF"

\* C4: at every point of a tokenization the INDENT tokens emitted so far
\* exceed the DEDENT tokens emitted so far by the depth of the indentation
\* stack above its base, and the tokens returned hold as many INDENT as
\* DEDENT tokens.
C4_IndentDedentBalance ==
    /\ CountType(tokens, "INDENT") - CountType(tokens, "DEDENT") = Len(indentStack) - 1
    /\ pc = "lexed" => CountType(tokens, "INDENT") = CountType(tokens, "DEDENT")

\* a returned run that opened two nested indentation levels
C4_Witness ==
    /\ pc = "lexed"
    /\ CountType(tokens, "INDENT") = 2
    /\ CountType(tokens, "DEDENT") = 2

\* the character at index k of the source lies in the text of a token, at
\* the place the token's position gives it
InTokenText(k) ==
    \E i \in 1..Len(tokens) :
        /\ tokens[i].position <= k
        /\ k < tokens[i].position + Len(tokens[i].value)
        /\ tokens[i].value[k - tokens[i].position + 1] = charAt(k)

\* the source has no "//" and no "/*", so no character of it is in a comment
WithoutComment ==
    \A k \in 0..(Len(source) - 2) :
        ~(charAt(k) = "/" /\ charAt(k + 1) \in {"/", "*"})

\* C14: in the tokens tokenize returns for a source without a comment, every
\* character of the source that is not a blank or a tab lies in the text of a
\* token, at the place the token's position gives it
C14_EveryCharacterAccounted ==
    pc = "lexed" /\ WithoutComment =>
        \A k \in 0..(Len(source) - 1) : charAt(k) \in {" ", "\t"} \/ InTokenText(k)

\* C15: in the tokens tokenize returns, the position of each token is
\* greater than the position of the token before it
C15_PositionsIncrease ==
    pc = "lexed" =>
        \A i \in 1..(Len(tokens) - 1) : tokens[i].position < tokens[i + 1].position

\* the tokens are those of one line that holds no statement with a body
PlainLine ==
    \A i \in 1..Len(tokens) :
        /\ tokens[i].type \notin {"INDENT", "DEDENT", "COMMENT", "IF", "ELSE", "FOR",
                                  "WHILE", "ARROW"}
        /\ tokens[i].type = "NEWLINE" => i = Len(tokens) - 1

\* C20: on a line without a statement that has a body, each statement the
\* loop of parseProgram parses or gives up adds at most one diagnostic
C20_OneDiagnosticPerStatement ==
    [][pc = "parse" /\ PlainLine => Len(parseErrors') <= Len(parseErrors) + 1]_vars

-----------------------------------------------------------------------------
(* Claims about calling an instance again *)

LastCall == invoked[Len(invoked)]

SameAnalysis(a) == semErrors = a.errors /\ symbolTable = a.symbols

\* C16: whatever calls an instance has served before, tokenize returns the
\* tokens and diagnostics, parse the tree and diagnostics, and analyze the
\* symbol table and diagnostics that the call returns on a newly made
\* instance, which are those its first call returned
C16_SameResultOnEveryCall ==
    /\ pc = "tokenize" => tokens = tokenize.tokens /\ lexErrors = tokenize.errors
    /\ pc = "parse" => ast = parse.ast /\ parseErrors = parse.errors
    /\ pc = "analyze" => SameAnalysis(analyze(LastCall[2]))

\* tokenize has been called on one text, on another and on the first again,
\* parse three times on tokens it reports an error for, and analyze on one
\* tree, on another and on the first again, with a diagnostic returned
C16_Witness ==
    /\ pc = "analyze"
    /\ Len(CallsOf("tokenize")) = 3
    /\ CallsOf("tokenize")[1] = CallsOf("tokenize")[3]
    /\ CallsOf("tokenize")[1] # CallsOf("tokenize")[2]
    /\ Len(CallsOf("parse")) = 3
    /\ parseErrors # <<>>
    /\ Len(CallsOf("analyze")) = 3
    /\ CallsOf("analyze")[1] = CallsOf("analyze")[3]
    /\ CallsOf("analyze")[1] # CallsOf("analyze")[2]
    /\ semErrors # <<>>

-----------------------------------------------------------------------------
(* Claims about the parser *)

\* C5: for every token sequence that ends with EOF parse terminates: each
\* iteration of the statement loop of parseProgram consumes at least one
\* token, no loop below it goes through an iteration that consumes nothing,
\* and the position stays before the EOF token's successor; what parse returns
\* is a tree whose root is a PROGRAM node, with syntax diagnostics.
C5_ParseTerminates ==
    /\ [][pc = "parse" /\ pc' = "parse" => current' > current]_vars
    /\ [](pc # "spin" /\ current < Len(tokens))
    /\ [](pc = "parsed" =>
            /\ ast.type = "PROGRAM"
            /\ ast.children = statements
            /\ \A i \in 1..Len(parseErrors) :
                  parseErrors[i].type = "syntax" /\ parseErrors[i].severity = "error")

\* a returned parse of a while statement whose indented body holds a
\* statement and is not closed: a diagnostic and a block in the tree
C5_Witness ==
    /\ pc = "parsed"
    /\ Len(parseErrors) >= 1
    /\ \E i \in 1..Len(ast.children) :
          /\ ast.children[i].type = "WHILE_STATEMENT"
          /\ Len(ast.children[i].children[2].children) >= 1
    /\ CountType(tokens, "INDENT") >= 1

\* the level of the chain whose loop matches the operator
OperatorLevel(type) ==
    CASE type = "OR" -> Level("parseLogicalOr")
      [] type = "AND" -> Level("parseLogicalAnd")
      [] type \in {"EQ", "NE"} -> Level("parseEquality")
      [] type \in {"GT", "GE", "LT", "LE"} -> Level("parseComparison")
      [] type \in {"PLUS", "MINUS"} -> Level("parseTerm")
      [] type \in {"MULTIPLY", "DIVIDE", "MODULO"} -> Level("parseFactor")

\* the tokens are a op1 b op2 c and the parse of them has returned
ExpressionParsed ==
    /\ pc = "parsed"
    /\ \E kinds \in Expressions : tokens = TokensOf(kinds)

\* node is the node of the operator at tokens[i]
IsOperatorNode(node, i) ==
    /\ node.type = "BINARY_EXPRESSION"
    /\ node.value = ValStr(Str(tokens[i].value))
    /\ node.location.column = tokens[i].column
    /\ Len(node.children) = 2

\* node is the node of the operand at tokens[i]
IsOperandNode(node, i) ==
    /\ node.type = "IDENTIFIER"
    /\ node.value = ValStr(Str(tokens[i].value))
    /\ node.location.column = tokens[i].column

\* (a op1 b) op2 c
GroupsLeft(node) ==
    /\ IsOperatorNode(node, 4)
    /\ IsOperatorNode(node.children[1], 2)
    /\ IsOperandNode(node.children[1].children[1], 1)
    /\ IsOperandNode(node.children[1].children[2], 3)
    /\ IsOperandNode(node.children[2], 5)

\* a op1 (b op2 c)
GroupsRight(node) ==
    /\ IsOperatorNode(node, 2)
    /\ IsOperandNode(node.children[1], 1)
    /\ IsOperatorNode(node.children[2], 4)
    /\ IsOperandNode(node.children[2].children[1], 3)
    /\ IsOperandNode(node.children[2].children[2], 5)

\* C13: the parse of a op1 b op2 c is one statement without an error; when
\* op2 binds tighter than op1 its node is the right child of the node of op1,
\* and otherwise (op1 binds tighter, or both are of one level) the node of op1
\* is the left child of the node of op2
C13_PrecedenceAndAssociativity ==
    ExpressionParsed =>
        /\ parseErrors = <<>>
        /\ Len(ast.children) = 1
        /\ IF OperatorLevel(tokens[2].type) < OperatorLevel(tokens[4].type)
           THEN GroupsRight(ast.children[1])
           ELSE GroupsLeft(ast.children[1])

\* a + b * c has been parsed into the node of + with the node of * as its
\* right child
C13_Witness ==
    /\ ExpressionParsed
    /\ tokens[2].type = "PLUS"
    /\ tokens[4].type = "MULTIPLY"
    /\ GroupsRight(ast.children[1])

-----------------------------------------------------------------------------
(* Claims about compileSource *)

Stages == <<"tokenize", "parse", "analyze">>

IsPrefix(s, t) == Len(s) <= Len(t) /\ s = SubSeq(t, 1, Len(s))

\* a lexical diagnostic of error severity with code 1001 or 1002
FatalLexical ==
    \E i \in 1..Len(lexErrors) :
        /\ lexErrors[i].severity = "error"
        /\ lexErrors[i].code \in {ToString(INVALID_CHARACTER), ToString(UNTERMINATED_STRING)}

\* C1: compileSource invokes the stages in the order tokenize, parse,
\* analyze; the parser is invoked if and only if the tokenizer reported no
\* diagnostic of error severity with code 1001 or 1002; when it reported one,
\* neither the parser nor the analyzer is invoked and the result holds
\* exactly the lexical diagnostics (one diagnostic, code 1002, for the source
\* "abc with its opening quote only); with lexical diagnostics of other
\* codes only, such as 1003, all three stages are invoked.
C1_StagesAndLexicalHalt ==
    /\ IsPrefix(invoked, Stages)
    /\ pc = "done" =>
          /\ result.returned
          /\ Len(invoked) >= 1
          /\ (Len(invoked) >= 2) <=> ~FatalLexical
          /\ FatalLexical => invoked = <<"tokenize">> /\ result.errors = lexErrors
          /\ ~FatalLexical => invoked = Stages
          /\ source = Chars("\"abc") =>
                /\ Len(result.errors) = 1
                /\ result.errors[1].code = ToString(UNTERMINATED_STRING)
                /\ result.warnings = <<>>

\* compileSource has returned for a text whose first line is fine and whose
\* second line opens a string it does not close: the parser was not invoked
C1_Witness ==
    /\ pc = "done"
    /\ invoked = <<"tokenize">>
    /\ HasCode(lexErrors, UNTERMINATED_STRING)
    /\ Len(tokens) > 3
    /\ result.returned /\ result.errors = lexErrors

ErrorsOf(errors) == SelectSeq(errors, LAMBDA e : e.severity = "error")

WarningsOf(errors) == SelectSeq(errors, LAMBDA e : e.severity = "warning")

\* C2: every result compileSource returns has success true if and only if
\* its errors list is empty, its errors are exactly the accumulated
\* diagnostics of severity error and its warnings exactly those of severity
\* warning: on the return after the analysis, on the return after a fatal
\* lexical diagnostic, and on the return of the catch block, whichever
\* diagnostics had been accumulated when the exception was caught.
C2_SuccessIffNoErrors ==
    /\ result.returned =>
          /\ result.success <=> result.errors = <<>>
          /\ result.errors = ErrorsOf(allErrors)
          /\ result.warnings = WarningsOf(allErrors)
    /\ LET caught == catchResult(allErrors, "Unknown error")
       IN  /\ caught.success <=> caught.errors = <<>>
           /\ Len(caught.errors) = Len(ErrorsOf(allErrors)) + 1
           /\ SubSeq(caught.errors, 1, Len(caught.errors) - 1) = ErrorsOf(allErrors)
           /\ caught.errors[Len(caught.errors)].code = "9999"
           /\ caught.warnings = WarningsOf(allErrors)

\* a result returned after the analysis that holds a lexical, a syntax and a
\* semantic diagnostic
C2_Witness ==
    /\ pc = "done"
    /\ invoked = Stages
    /\ result.returned /\ ~result.success
    /\ \A t \in {"lexical", "syntax", "semantic"} :
          \E i \in 1..Len(result.errors) : result.errors[i].type = t

-----------------------------------------------------------------------------
(* Claims about the diagnostics of a whole compilation *)

\* compileSource has returned after the analysis
Analyzed == pc = "done" /\ invoked = Stages

\* the lines of a text
RECURSIVE SplitLines(_)
SplitLines(text) ==
    LET i == FirstIndex(text, {"\n"})
    IN  IF i > Len(text) THEN <<text>>
        ELSE <<SubSeq(text, 1, i - 1)>> \o SplitLines(SubSeq(text, i + 1, Len(text)))

\* the number of spaces a line starts with
IndentOf(chars) ==
    IF \A i \in 1..Len(chars) : chars[i] = " " THEN Len(chars)
    ELSE (CHOOSE i \in 1..Len(chars) :
              chars[i] # " " /\ \A j \in 1..(i - 1) : chars[j] = " ") - 1

\* the line without its indentation starts with the characters of str
StartsWith(chars, str) ==
    /\ Len(chars) >= IndentOf(chars) + Len(str)
    /\ SubSeq(chars, IndentOf(chars) + 1, IndentOf(chars) + Len(str)) = Chars(str)

\* one-line statements that are complete
SimpleStatements ==
    {Chars("plot(close)"), Chars("var x = 1"), Chars("indicator(\"a\")"),
     Chars("strategy(\"s\")"), Chars("x = 5 ? 1 : 2")}

\* after complete one-line statements, a for line or a while line that is not
\* indented, followed by an indented plot(...) line
LoopWithPlotBody(text) ==
    LET ls == SplitLines(text)
    IN  \E i \in 1..(Len(ls) - 1) :
            /\ \A j \in 1..(i - 1) : ls[j] \in SimpleStatements
            /\ IndentOf(ls[i]) = 0
            /\ StartsWith(ls[i], "for ") \/ StartsWith(ls[i], "while ")
            /\ IndentOf(ls[i + 1]) > 0
            /\ StartsWith(ls[i + 1], "plot(")

\* C6: when tokenize, parse and analyze have run on a source text in which a
\* for loop or a while loop has an indented body that holds a plot(...)
\* statement, the diagnostics include one with code 3004.
C6_PlotInLoopReported ==
    Analyzed /\ LoopWithPlotBody(source) => HasCode(result.errors, PLOT_IN_LOOP)

\* the nodes of a tree, the test and the branches of an if statement included
RECURSIVE NodesOf(_)
NodesOf(node) ==
    {node}
    \cup UNION {NodesOf(node.children[i]) : i \in 1..Len(node.children)}
    \cup (IF node.type = "IF_STATEMENT"
          THEN UNION {NodesOf(node.f[name]) : name \in DOMAIN node.f}
          ELSE {})

Conditionals == {"IF_STATEMENT", "WHILE_STATEMENT", "CONDITIONAL_EXPRESSION"}

ConditionOf(node) ==
    IF node.type = "IF_STATEMENT" THEN node.f.test ELSE node.children[1]

IsNumberLiteral(node) == node.type = "LITERAL" /\ node.value.k = "number"

\* the semantic diagnostics with this code at this location
SemanticAt(code, location) ==
    {i \in 1..Len(semErrors) :
        semErrors[i].code = ToString(code) /\ semErrors[i].location = location}

\* C7: for every if statement, while statement and ternary conditional of
\* the analyzed program whose condition is a number literal (so its inferred
\* type is int or float, not boolean), the analysis reports a diagnostic with
\* code 3002 whose location is that of the condition, not that of the
\* enclosing node.
C7_NonBooleanConditionReported ==
    Analyzed =>
        \A node \in NodesOf(ast) :
            node.type \in Conditionals /\ IsNumberLiteral(ConditionOf(node)) =>
                SemanticAt(TYPE_MISMATCH, ConditionOf(node).location) # {}

Declarations == {"VARIABLE_DECLARATION", "FUNCTION_DECLARATION"}

\* child j of the block declares a name
Declares(block, j) ==
    /\ block.children[j].type \in Declarations
    /\ Len(block.children[j].children) >= 1

\* child j of the block declares the name an earlier child of it declares
Redeclares(block, j) ==
    /\ Declares(block, j)
    /\ \E i \in 1..(j - 1) :
          /\ Declares(block, i)
          /\ block.children[i].children[1].value = block.children[j].children[1].value

\* the statement lists that make one scope each
Blocks == {node \in NodesOf(ast) : node.type \in {"PROGRAM", "BLOCK"}}

\* the bodies of the loops and functions
Bodies ==
    {node.children[Len(node.children)] :
        node \in {n \in NodesOf(ast) :
                     /\ n.type \in {"WHILE_STATEMENT", "FOR_STATEMENT", "FUNCTION_DECLARATION"}
                     /\ Len(n.children) >= 2}}

\* C8: in the analyzed program every declaration of a name that an earlier
\* statement of the same block declares gets exactly one diagnostic with code
\* 3006, at that later declaration; a declaration in a loop body or function
\* body of a name not declared earlier in that body gets none, whatever the
\* enclosing scopes declare.
C8_RedeclarationReportedOnce ==
    Analyzed =>
        /\ \A block \in Blocks : \A j \in 1..Len(block.children) :
              Redeclares(block, j) =>
                  Cardinality(SemanticAt(VARIABLE_REDECLARATION,
                                         block.children[j].location)) = 1
        /\ \A block \in Bodies : \A j \in 1..Len(block.children) :
              Declares(block, j) /\ ~Redeclares(block, j) =>
                  SemanticAt(VARIABLE_REDECLARATION, block.children[j].location) = {}

\* the strategy() and indicator() declarations of the program
DeclarationNodes ==
    {node \in NodesOf(ast) :
        node.type \in {"STRATEGY_DECLARATION", "INDICATOR_DECLARATION"}}

\* C9: the analysis emits exactly one diagnostic with code 2005 if the
\* program holds no strategy()/indicator() declaration and none if it holds
\* one; the diagnostic is at line 1, column 1 and is the last semantic
\* diagnostic; for the program plot(close) it is the only one.
C9_MissingDeclarationReported ==
    Analyzed =>
        /\ CountCode(semErrors, MISSING_STRATEGY_DECLARATION)
              = IF DeclarationNodes = {} THEN 1 ELSE 0
        /\ HasCode(semErrors, MISSING_STRATEGY_DECLARATION) =>
              LET e == semErrors[Len(semErrors)]
              IN  /\ e.code = ToString(MISSING_STRATEGY_DECLARATION)
                  /\ e.location.line = 1 /\ e.location.column = 1
        /\ source = Chars("plot(close)") => Len(semErrors) = 1

OnlyOneDeclaration ==
    {i \in 1..Len(semErrors) :
        /\ semErrors[i].code = ToString(INVALID_FUNCTION_DECLARATION)
        /\ semErrors[i].message =
              "Only one strategy() or indicator() declaration is allowed per script"}

Before(l1, l2) ==
    l1.line < l2.line \/ (l1.line = l2.line /\ l1.column < l2.column)

\* C10: for a program with n >= 1 strategy()/indicator() declarations the
\* analysis reports n - 1 "only one declaration allowed" errors: one at the
\* location of each declaration that follows another, none at the first.
C10_OneErrorPerLaterDeclaration ==
    Analyzed /\ DeclarationNodes # {} =>
        /\ Cardinality(OnlyOneDeclaration) = Cardinality(DeclarationNodes) - 1
        /\ \A d \in DeclarationNodes :
              Cardinality({i \in OnlyOneDeclaration : semErrors[i].location = d.location})
                 = IF \E e \in DeclarationNodes : Before(e.location, d.location)
                   THEN 1 ELSE 0

-----------------------------------------------------------------------------
(* Claims about the codes of the diagnostics *)

\* the codes of a category of diagnostics
CodesOf(type) ==
    CASE type = "lexical" -> 1000..1999
      [] type = "syntax" -> 2000..2999
      [] type = "semantic" -> 3000..3999
      [] OTHER -> {}

\* C17: every diagnostic of a compilation has a code of the range of its
\* category: lexical 1000-1999, syntax 2000-2999, semantic 3000-3999
C17_CodeInCategoryRange ==
    \A i \in 1..Len(allErrors) :
        \E n \in CodesOf(allErrors[i].type) : allErrors[i].code = ToString(n)

UnmatchedDedent == "Indentation does not match any outer indentation level"

\* C18: a compilation whose lexical diagnostics are all about a dedent to a
\* width no indentation level has, and that has at least one, goes on to
\* parse and analyze
C18_UnmatchedDedentNotFatal ==
    /\ pc = "done"
    /\ lexErrors # <<>>
    /\ \A i \in 1..Len(lexErrors) : lexErrors[i].message = UnmatchedDedent
    => invoked = Stages

-----------------------------------------------------------------------------
(* Claims about plot statements and loops *)

\* the plot statements the walk from node comes to through blocks and loop
\* bodies, each with whether it is in the body of a loop: <<location, inBody>>
RECURSIVE PlotsFrom(_, _)
PlotsFrom(node, inBody) ==
    CASE node.type = "PLOT_STATEMENT" -> {<<node.location, inBody>>}
      [] node.type \in {"PROGRAM", "BLOCK"} ->
            UNION {PlotsFrom(node.children[i], inBody) : i \in 1..Len(node.children)}
      [] node.type \in {"WHILE_STATEMENT", "FOR_STATEMENT"}
            /\ Len(node.children) >= 2 ->
            PlotsFrom(node.children[Len(node.children)], TRUE)
      [] OTHER -> {}

\* C19: a plot statement the analysis comes to through blocks and loop
\* bodies gets the 3004 diagnostic exactly when it is in the body of a loop,
\* also when a loop has ended before it
C19_PlotInLoopExactlyInBodies ==
    Analyzed =>
        \A plot \in PlotsFrom(ast, FALSE) :
            SemanticAt(PLOT_IN_LOOP, plot[1]) # {} <=> plot[2]

\* the body of a loop
Body(loop) == loop.children[Len(loop.children)]

\* an analysed program whose only statement is a loop with a loop and then a
\* plot statement in its body, the plot statement reported
C19_Witness ==
    /\ Analyzed
    /\ Len(ast.children) = 1
    /\ ast.children[1].type = "WHILE_STATEMENT"
    /\ Body(ast.children[1]).type = "BLOCK"
    /\ Len(Body(ast.children[1]).children) = 2
    /\ Body(ast.children[1]).children[1].type = "WHILE_STATEMENT"
    /\ Body(ast.children[1]).children[2].type = "PLOT_STATEMENT"
    /\ SemanticAt(PLOT_IN_LOOP, Body(ast.children[1]).children[2].location) # {}



\* the identifier nodes under node that stand where a value is read: not the
\* name of a declaration, a parameter or a loop variable, not the target of
\* an assignment or the name of a named argument, not the name of the
\* function in a call and not the property of a member expression
RECURSIVE References(_)
References(node) ==
    LET from(i) == UNION {References(node.children[j]) : j \in i..Len(node.children)}
        callee == node.children[1]
    IN  CASE node.type = "IDENTIFIER" -> {node}
          [] node.type \in {"VARIABLE_DECLARATION", "FOR_STATEMENT", "ASSIGNMENT"} -> from(2)
          [] node.type = "FUNCTION_DECLARATION" -> from(Len(node.children))
          [] node.type = "MEMBER_EXPRESSION" -> References(callee)
          [] node.type = "CALL_EXPRESSION" ->
                from(2) \cup (IF callee.type = "IDENTIFIER"
                                  \/ /\ callee.type = "MEMBER_EXPRESSION"
                                     /\ \A j \in 1..Len(callee.children) :
                                            callee.children[j].type = "IDENTIFIER"
                               THEN {} ELSE References(callee))
          [] node.type = "IF_STATEMENT" ->
                UNION {References(node.f[name]) : name \in DOMAIN node.f}
          [] OTHER -> from(1)

\* the names some declaration of the program introduces, wherever it stands:
\* variables, loop variables, functions and their parameters
DeclaredNames ==
    UNION {{n.children[j].value.s :
               j \in {k \in 1..Len(n.children) :
                         /\ n.children[k].type = "IDENTIFIER"
                         /\ \/ k = 1
                            \/ n.type = "FUNCTION_DECLARATION" /\ k < Len(n.children)}} :
           n \in {m \in NodesOf(ast) :
                     m.type \in {"VARIABLE_DECLARATION", "FOR_STATEMENT",
                                 "FUNCTION_DECLARATION"}}}

BuiltinNames ==
    {BuiltinVariables[i][1] : i \in 1..Len(BuiltinVariables)}
        \cup DOMAIN initializeBuiltinFunctions

\* the diagnostics that report the name as an undefined variable at a location
UndefinedVariableAt(name, location) ==
    {i \in SemanticAt(UNDEFINED_VARIABLE, location) :
        semErrors[i].message = "Undefined variable '" \o name \o "'"}

\* C11: in the analyzed program every identifier that stands where a value is
\* read (an operand, a call argument, the object of a member access, a
\* condition, anywhere in the bodies of if, loop and function constructs) and
\* whose name no declaration of the program introduces and no builtin has,
\* gets exactly one undefined-variable diagnostic (code 3001) at its place.
C11_UndefinedReferenceReported ==
    Analyzed =>
        \A r \in References(ast) :
            r.value.s \notin DeclaredNames \cup BuiltinNames
                => Cardinality(UndefinedVariableAt(r.value.s, r.location)) = 1

\* the name a call looks its function up by: the identifier, or the two
\* identifiers of object.property joined with a dot; "" when it has none
CalleeName(call) ==
    LET callee == call.children[1]
    IN  IF callee.type = "IDENTIFIER" THEN callee.value.s
        ELSE IF /\ callee.type = "MEMBER_EXPRESSION"
                /\ Len(callee.children) = 2
                /\ \A j \in 1..2 : callee.children[j].type = "IDENTIFIER"
        THEN callee.children[1].value.s \o "." \o callee.children[2].value.s
        ELSE ""

Calls ==
    {n \in NodesOf(ast) :
        n.type = "CALL_EXPRESSION" /\ Len(n.children) >= 1 /\ CalleeName(n) # ""}

\* the names the function declarations of the program declare
DeclaredFunctions ==
    {n.children[1].value.s :
        n \in {m \in NodesOf(ast) :
                  m.type = "FUNCTION_DECLARATION" /\ Len(m.children) >= 1}}

\* C12: every call of the analyzed program whose callee name (an identifier,
\* or object.property joined with a dot) is neither a builtin function nor a
\* function the program declares gets an undefined-function error at the
\* call; a name that only a variable has, such as the builtin series close,
\* is not a declared function.
C12_UndefinedFunctionReported ==
    Analyzed =>
        \A c \in Calls :
            CalleeName(c) \notin DOMAIN initializeBuiltinFunctions \cup DeclaredFunctions
                => \E i \in 1..Len(semErrors) :
                       /\ semErrors[i].location = c.location
                       /\ semErrors[i].severity = "error"
                       /\ semErrors[i].message
                              = "Undefined function '" \o CalleeName(c) \o "'"

-----------------------------------------------------------------------------
(* Claims about commas, declarations and type keywords in the parser *)

\* the program has been parsed
Parsed == pc \in {"parsed", "done"} /\ ast # NoNode

IsSequence(node) == node.type = "BINARY_EXPRESSION" /\ node.value = ValStr(",")

\* the ternary conditionals that are an argument of a call or an element of
\* an array literal
ListedConditionals ==
    UNION {{n.children[i] : i \in {j \in 1..Len(n.children) :
                                     n.children[j].type = "CONDITIONAL_EXPRESSION"}} :
           n \in {m \in NodesOf(ast) : m.type \in {"CALL_EXPRESSION", "ARRAY_LITERAL"}}}

\* C21: in the parsed program no branch of a ternary conditional that is an
\* argument of a call or an element of an array literal is a sequence node: a
\* comma after the else-branch separates arguments or elements
C21_CommaAfterTernarySeparates ==
    Parsed =>
        \A c \in ListedConditionals :
            Len(c.children) = 3 => ~IsSequence(c.children[2]) /\ ~IsSequence(c.children[3])

TypeKeywords == {"int", "float", "bool", "string", "color"}

\* the declarations of the parsed program that begin with a type keyword
TypedDeclarations ==
    {n \in NodesOf(ast) :
        /\ n.type = "VARIABLE_DECLARATION"
        /\ n.value \in {ValStr(k) : k \in TypeKeywords}}

\* C22: in the parsed program the initializer of a declaration that begins
\* with a type keyword is not a sequence node: a comma after an initializer
\* begins the next declarator, which gets a declaration node of its own
C22_OneDeclarationPerDeclarator ==
    Parsed =>
        \A n \in TypedDeclarations : Len(n.children) = 2 => ~IsSequence(n.children[2])

\* the tokens begin with a type keyword that no identifier follows
TypeKeywordAlone ==
    /\ Len(tokens) >= 2
    /\ isTypeKeyword(tokens[1])
    /\ tokens[2].type # "IDENTIFIER"

\* C23: when the tokens begin with a type keyword that no identifier follows,
\* the parse builds no declaration for it and reports no missing variable
\* name
C23_TypeKeywordOnlyBeforeIdentifier ==
    pc = "parsed" /\ TypeKeywordAlone =>
        /\ TypedDeclarations = {}
        /\ \A i \in 1..Len(parseErrors) : parseErrors[i].message # "Expected variable name"

-----------------------------------------------------------------------------
(* Claims about blank lines, comments and the indentation *)

\* the index of the first character at or after i that is no blank and no tab
RECURSIVE PastBlanks(_)
PastBlanks(i) == IF charAt(i) \in {" ", "\t"} THEN PastBlanks(i + 1) ELSE i

\* the line that begins at index i holds blanks and tabs only
BlankLineAt(i) == PastBlanks(i) >= Len(source) \/ charAt(PastBlanks(i)) \in {"\n", "\r"}

\* the line that begins at index i holds, after blanks and tabs, a comment
CommentLineAt(i) == charAt(PastBlanks(i)) = "/" /\ charAt(PastBlanks(i) + 1) = "/"

\* the step is a scanToken call and leaves the indentation as it is
IndentationKept ==
    /\ indentStack' = indentStack
    /\ CountType(tokens', "INDENT") = CountType(tokens, "INDENT")
    /\ CountType(tokens', "DEDENT") = CountType(tokens, "DEDENT")

\* C24: the scanToken call at the start of a blank line or of a line that
\* holds only a comment leaves the indent stack unchanged and emits no INDENT
\* and no DEDENT token
C24_BlankAndCommentLinesKeepIndentation ==
    [][/\ pc = "scan" /\ atLineStart /\ ~Lexer_isAtEnd(LexState)
       /\ BlankLineAt(position) \/ CommentLineAt(position)
       => IndentationKept]_vars

-----------------------------------------------------------------------------
(* Claims about the scopes of the analyzer *)

\* the loops and function definitions of the program: each enters one scope
ScopedNodes ==
    {n \in NodesOf(ast) :
        n.type \in {"WHILE_STATEMENT", "FOR_STATEMENT", "FUNCTION_DECLARATION"}}

\* the program holds no if statement
NoIfStatement == \A n \in NodesOf(ast) : n.type # "IF_STATEMENT"

\* the declarations of variables directly in the body
VariablesOf(body) ==
    {j \in 1..Len(body.children) :
        /\ body.children[j].type = "VARIABLE_DECLARATION"
        /\ Len(body.children[j].children) >= 1}

\* C25: in the analyzed program every loop and every function definition was
\* walked in a scope of its own, so the symbol table holds one scope for each
\* of them beside the global one, and a variable declared in the body of one
\* of them that no earlier statement of that body declares is not reported
\* as redeclared
C25_ScopeNamesDiffer ==
    Analyzed /\ NoIfStatement =>
        /\ Cardinality(DOMAIN semFields.scopes) = 1 + Cardinality(ScopedNodes)
        /\ \A body \in Bodies : \A j \in VariablesOf(body) :
              ~Redeclares(body, j) =>
                  SemanticAt(VARIABLE_REDECLARATION, body.children[j].location) = {}

-----------------------------------------------------------------------------
(* Claims about the types of expressions *)

ArithmeticOperators == {"+", "-", "*", "/", "%", "^"}

\* the builtin variables of a numeric type, with their types
NumericBuiltins ==
    {BuiltinVariables[i] : i \in {j \in 1..Len(BuiltinVariables) :
                                     isNumericType(BuiltinVariables[j][2])}}

\* the node is a number or the name of a numeric builtin variable
IsNumericOperand(node) ==
    \/ IsNumberLiteral(node)
    \/ node.type = "IDENTIFIER" /\ node.value.s \in {b[1] : b \in NumericBuiltins}

\* the type of such an operand
OperandType(node) ==
    IF IsNumberLiteral(node) THEN (IF node.value.int THEN "int" ELSE "float")
    ELSE (CHOOSE b \in NumericBuiltins : b[1] = node.value.s)[2]

\* the declarations of the program, outside any block, of a variable that is
\* declared once and initialized with the arithmetic of two numeric operands
ArithmeticDeclarations ==
    {j \in 1..Len(ast.children) :
        LET d == ast.children[j]
        IN  /\ d.type = "VARIABLE_DECLARATION" /\ Len(d.children) = 2
            /\ ~Redeclares(ast, j)
            /\ \A k \in (j + 1)..Len(ast.children) : ~Redeclares(ast, k)
            /\ d.children[2].type = "BINARY_EXPRESSION"
            /\ operatorOf(d.children[2]) \in ArithmeticOperators
            /\ \A i \in 1..2 : IsNumericOperand(d.children[2].children[i])}

\* C26: a variable initialized with the arithmetic of two numeric operands
\* has the type float if either operand is float or series<float> and the
\* type int otherwise; no such variable has a series type
C26_ArithmeticResultType ==
    Analyzed =>
        \A j \in ArithmeticDeclarations :
            LET d == ast.children[j]
                operands == d.children[2].children
            IN  symbolTable["global:" \o d.children[1].value.s].type =
                    IF \E i \in 1..2 : OperandType(operands[i]) \in {"float", "series<float>"}
                    THEN "float" ELSE "int"

-----------------------------------------------------------------------------
(* Claims about multi-line comments *)

\* the text holds nothing but slashes, stars and letters
CommentText == \A i \in 1..Len(source) : source[i] \in CommentChars

\* the index of the first "*/" at or after index i, -1 if there is none
RECURSIVE CloseFrom(_)
CloseFrom(i) ==
    IF i + 1 >= Len(source) THEN -1
    ELSE IF charAt(i) = "*" /\ charAt(i + 1) = "/" THEN i
    ELSE CloseFrom(i + 1)

\* the index of the "/*" at or after index i that opens a comment no "*/"
\* closes, -1 if there is none; a "//" comment takes the rest of the line
RECURSIVE OpenCommentFrom(_)
OpenCommentFrom(i) ==
    IF i + 1 >= Len(source) THEN -1
    ELSE IF charAt(i) = "/" /\ charAt(i + 1) = "/" THEN -1
    ELSE IF charAt(i) = "/" /\ charAt(i + 1) = "*"
    THEN (IF CloseFrom(i + 2) = -1 THEN i ELSE OpenCommentFrom(CloseFrom(i + 2) + 2))
    ELSE OpenCommentFrom(i + 1)

\* C27: tokenize of a one-line text reports exactly one error with code 1002
\* if the text ends inside a multi-line comment and none if every comment is
\* closed, and no token comes from the text after the opening of the
\* unclosed comment
C27_UnterminatedCommentReported ==
    pc = "lexed" /\ CommentText =>
        /\ CountCode(lexErrors, UNTERMINATED_STRING)
              = IF OpenCommentFrom(0) >= 0 THEN 1 ELSE 0
        /\ OpenCommentFrom(0) >= 0 =>
              \A k \in 1..Len(tokens) :
                  tokens[k].type \notin {"NEWLINE", "EOF"} =>
                      tokens[k].position < OpenCommentFrom(0)

-----------------------------------------------------------------------------
(* Claims about the scope stack *)

\* the names declared in the scope of a loop or function: the variables of
\* its body, the loop variable, the parameters
ScopedNames ==
    UNION {{body.children[j].children[1].value.s : j \in VariablesOf(body)} :
           body \in Bodies}
        \cup {n.children[1].value.s : n \in {m \in ScopedNodes : m.type = "FOR_STATEMENT"}}
        \cup UNION {{n.children[k].value.s : k \in 2..(Len(n.children) - 1)} :
                    n \in {m \in ScopedNodes : m.type = "FUNCTION_DECLARATION"}}

\* the names declared outside the bodies of loops and functions
OuterNames ==
    UNION {{block.children[j].children[1].value.s :
               j \in {k \in 1..Len(block.children) : Declares(block, k)}} :
           block \in Blocks \ Bodies}

\* the statements of the program that open no scope
UnscopedStatements ==
    {j \in 1..Len(ast.children) : ast.children[j] \notin ScopedNodes}

\* the references in statement j of the program to a name that only the
\* scope of a loop or function declares
ReferencesPastScope(j) ==
    {r \in References(ast.children[j]) :
        r.value.s \in ScopedNames \ (BuiltinNames \cup OuterNames)}

\* C28: the scope stack is never empty and is the global scope alone once
\* analyze has returned; the walk of every node of the program leaves the
\* stack as it found it; and a reference, in a statement of the program that
\* opens no scope, to a name that only the scope of a loop or function
\* declares is reported as an undefined variable
C28_ScopesEndWithTheirConstruct ==
    /\ Len(scopeStack) >= 1
    /\ Analyzed =>
          /\ scopeStack = <<"global">>
          /\ \A n \in NodesOf(ast) : visitNode(Sem_reset, n).a.scopeStack = <<"global">>
          /\ \A j \in UnscopedStatements : \A r \in ReferencesPastScope(j) :
                UndefinedVariableAt(r.value.s, r.location) # {}

-----------------------------------------------------------------------------
(* Claims about the walk of the analyzer *)

\* the if statements among the statements of the program
IfStatements ==
    {ast.children[j] : j \in {k \in 1..Len(ast.children) :
                                 ast.children[k].type = "IF_STATEMENT"}}

\* the condition and the branches the parser attached to the if statement
PartsOf(if) == {if.f[name] : name \in DOMAIN if.f}

\* the identifiers that are an argument of a plot call under the node
PlottedNames(node) ==
    UNION {{p.children[1].children[i] :
               i \in {k \in 2..Len(p.children[1].children) :
                         p.children[1].children[k].type = "IDENTIFIER"}} :
           p \in {n \in NodesOf(node) :
                     /\ n.type = "PLOT_STATEMENT"
                     /\ Len(n.children) = 1
                     /\ n.children[1].type = "CALL_EXPRESSION"}}

\* C29: for every if statement among the statements of the analyzed program,
\* an identifier that is its condition or an argument of a plot call in one
\* of its branches and whose name nothing declares is reported as an
\* undefined variable, and a plot statement in the body of a loop in one of
\* its branches is reported as a plot in a loop
C29_IfBranchesAnalysed ==
    Analyzed =>
        \A if \in IfStatements :
            /\ \A r \in PlottedNames(if) \cup {t \in {if.f.test} : t.type = "IDENTIFIER"} :
                  r.value.s \notin DeclaredNames \cup BuiltinNames =>
                      UndefinedVariableAt(r.value.s, r.location) # {}
            /\ \A part \in PartsOf(if) : \A plot \in PlotsFrom(part, FALSE) :
                  plot[2] => SemanticAt(PLOT_IN_LOOP, plot[1]) # {}

-----------------------------------------------------------------------------
(* Claims about named arguments *)

\* the named arguments of the calls and of the strategy() and indicator()
\* declarations of the program: the parser makes each an ASSIGNMENT node of
\* the name and the value
NamedArguments ==
    UNION {{n.children[i] :
               i \in {k \in (IF n.type = "CALL_EXPRESSION" THEN 2 ELSE 1)..Len(n.children) :
                         /\ n.children[k].type = "ASSIGNMENT"
                         /\ Len(n.children[k].children) = 2
                         /\ n.children[k].children[1].type = "IDENTIFIER"}} :
           n \in {m \in NodesOf(ast) : m.type = "CALL_EXPRESSION"} \cup DeclarationNodes}

\* C30: the analysis reports no undefined variable at the name of a named
\* argument and no type mismatch at the argument, and the program of an
\* indicator declaration with a named argument and plot(close) compiles
\* without a diagnostic
C30_NamedArgumentIsNoAssignment ==
    Analyzed =>
        /\ \A arg \in NamedArguments :
              /\ SemanticAt(UNDEFINED_VARIABLE, arg.children[1].location) = {}
              /\ SemanticAt(TYPE_MISMATCH, arg.location) = {}
        /\ source = Chars("indicator(\"x\", overlay=true)\nplot(close)") => allErrors = <<>>

=============================================================================
